---- MODULE Spec2Model ----
(***************************************************************************)
(* Model of the RLWE/RGSW Encryptor of rlwe/encryptor.go                   *)
(* (src/unnamed/part_001).                                                 *)
(*                                                                         *)
(* Ring elements are symbolic: a polynomial carries its IsNTT flag, its    *)
(* level (len(Coeffs)-1) and a value, the value being the domain the data  *)
(* really is in (dom), the power of the Montgomery constant it carries     *)
(* (mf) and the set of terms it is the sum of.  A term is a signed product *)
(* of atoms (a sampler draw, a key, the plaintext, the CRP), possibly      *)
(* divided by P.  An operation applied to data of the wrong domain or      *)
(* form yields dom = "bad".                                                *)
(*                                                                         *)
(* The source file carries unresolved merge markers.  Where the two sides  *)
(* differ the model follows the "[rlwe]: further refactoring" side, the    *)
(* one with the nil-plaintext handling and the poolQP buffer that the      *)
(* code outside the markers (encryptRGSW, encryptZeroSymetricQP) uses.     *)
(***************************************************************************)
EXTENDS Integers, Sequences, FiniteSets, TLC

VARIABLES hasP, nilLevel, tgt, encs, heap, smp, last, th, lwe, boot, test

vars == <<hasP, nilLevel, tgt, encs, heap, smp, last, th, lwe, boot, test>>

(* ------------------------------ bounds --------------------------------- *)

MaxLevel == 1

MaxEnc == 2

MaxDraws == 3

DecompRNS == 1

DecompBIT == 1

(* ring degree of the parameters, and a ring degree that differs from it *)
ParamsN == 4

OtherN == 8

Levels == 0..MaxLevel

(* ------------------------------ keys ----------------------------------- *)
(* Key objects a caller can hand to NewEncryptor / WithKey.  kind is the   *)
(* dynamic type of the interface value, d0/d1 the ring degrees of          *)
(* Value[0].Q / Value[1].Q (of Value.Q, in d0, for a secret key).          *)

KeyTable ==
  <<[kind |-> "pk",    d0 |-> ParamsN, d1 |-> ParamsN],
    [kind |-> "sk",    d0 |-> ParamsN, d1 |-> ParamsN],
    [kind |-> "sk",    d0 |-> ParamsN, d1 |-> ParamsN],
    [kind |-> "pk",    d0 |-> OtherN,  d1 |-> ParamsN],
    [kind |-> "pk",    d0 |-> ParamsN, d1 |-> OtherN],
    [kind |-> "sk",    d0 |-> OtherN,  d1 |-> OtherN],
    [kind |-> "other", d0 |-> ParamsN, d1 |-> ParamsN]>>

Keys == 1..Len(KeyTable)

(* ------------------------------ values --------------------------------- *)

Atom(k, s, n) == [k |-> k, s |-> s, n |-> n]

Term(atoms, neg, divP) == [a |-> atoms, neg |-> neg, divP |-> divP]

Value(dom, mf, terms) == [dom |-> dom, mf |-> mf, terms |-> terms]

ZeroVal == Value("zero", 0, {})

BadVal == Value("bad", 0, {})

One(dom, mf, atom) == Value(dom, mf, {Term({atom}, FALSE, FALSE)})

(* allocated polynomial / nil pointer *)
Poly(isNTT, lvl, v) == [ok |-> TRUE, IsNTT |-> isNTT, lvl |-> lvl, v |-> v]

NilPoly == [ok |-> FALSE, IsNTT |-> FALSE, lvl |-> 0, v |-> ZeroVal]

(* ------------------- ring arithmetic on values ------------------------- *)

vNTT(v) ==
  CASE v.dom = "coef" -> [v EXCEPT !.dom = "ntt"]
    [] v.dom = "zero" -> v
    [] OTHER -> BadVal

vInvNTT(v) ==
  CASE v.dom = "ntt" -> [v EXCEPT !.dom = "coef"]
    [] v.dom = "zero" -> v
    [] OTHER -> BadVal

vMForm(v) ==
  CASE v.dom \in {"ntt", "coef"} -> [v EXCEPT !.mf = @ + 1]
    [] OTHER -> v

vAdd(v, w) ==
  CASE v.dom = "bad" \/ w.dom = "bad" -> BadVal
    [] v.dom = "zero" -> w
    [] w.dom = "zero" -> v
    [] v.dom = w.dom /\ v.mf = w.mf -> Value(v.dom, v.mf, v.terms \cup w.terms)
    [] OTHER -> BadVal

vNeg(v) == [v EXCEPT !.terms = {[t EXCEPT !.neg = ~@] : t \in @}]

vMulMont(v, w) ==
  CASE v.dom = "bad" \/ w.dom = "bad" -> BadVal
    [] v.dom = "zero" \/ w.dom = "zero" -> ZeroVal
    [] v.dom = "ntt" /\ w.dom = "ntt" ->
         Value("ntt", v.mf + w.mf - 1,
               {Term(t.a \cup u.a, t.neg # u.neg, t.divP \/ u.divP) :
                  t \in v.terms, u \in w.terms})
    [] OTHER -> BadVal

(* RNS extension of a small-norm coefficient-domain polynomial from Q to P *)
vExtend(v) ==
  CASE v.dom \in {"coef", "zero"} -> v
    [] OTHER -> BadVal

(* division by P of a coefficient-domain polynomial given in base Q and P *)
vModDown(q, p) ==
  CASE q.dom = "zero" /\ p.dom = "zero" -> ZeroVal
    [] q.dom = "coef" /\ q = p ->
         [q EXCEPT !.terms = {[t EXCEPT !.divP = TRUE] : t \in @}]
    [] OTHER -> BadVal

(* --------------------------- heap locations ---------------------------- *)
(* Every ring element the Encryptor can reach is a heap cell <<name, i>>.  *)

Loc(name, i) == <<name, i>>

(* RLWE ciphertext c (0 or 1): Value[0] and Value[1] *)
Ct0(c) == Loc("ct", 2 * c)

Ct1(c) == Loc("ct", 2 * c + 1)

Pt(c) == Loc("pt", c)

Crp == Loc("crp", 0)

(* RGSW ciphertext: ct.Value[m].Value[i][j][c], its Q and P halves *)
GIdx(m, i, j, c) == ((m * DecompRNS + i) * DecompBIT + j) * 2 + c

GQ(m, i, j, c) == Loc("rgsw.Q", GIdx(m, i, j, c))

GP(m, i, j, c) == Loc("rgsw.P", GIdx(m, i, j, c))

GIdxs == 0..(4 * DecompRNS * DecompBIT - 1)

BufNames == {"buffQ0", "buffQ1", "buffP0", "buffP1", "buffP2", "poolQP.Q", "poolQP.P"}

PBufNames == {"buffP0", "buffP1", "buffP2", "poolQP.P"}

KeyNames == {"pk0.Q", "pk0.P", "pk1.Q", "pk1.P", "sk.Q", "sk.P"}

GoodKeys == {k \in Keys : KeyTable[k].kind \in {"pk", "sk"}
                          /\ KeyTable[k].d0 = ParamsN /\ KeyTable[k].d1 = ParamsN}

Locs ==
  {Loc("ct", i) : i \in 0..3} \cup {Loc("pt", i) : i \in 0..1} \cup {Crp}
  \cup {Loc(n, i) : n \in {"rgsw.Q", "rgsw.P"}, i \in GIdxs}
  \cup {Loc(n, b) : n \in BufNames, b \in 1..MaxEnc}
  \cup {Loc(n, k) : n \in KeyNames, k \in GoodKeys}

BufLocs(b) == {Loc(n, b) : n \in BufNames}

KeyLocs == {Loc(n, k) : n \in KeyNames, k \in GoodKeys}

(* Key material as the key generator leaves it: NTT domain, the secret   *)
(* key in Montgomery form, the P halves present iff P is configured.     *)
KeyPoly(l, p) ==
  LET n == l[1]
      k == l[2]
      isP == n \in {"pk0.P", "pk1.P", "sk.P"}
      kind == IF n \in {"sk.Q", "sk.P"} THEN "sk" ELSE "pk"
      at == IF kind = "sk" THEN Atom("sk", k, 0)
            ELSE IF n \in {"pk0.Q", "pk0.P"} THEN Atom("pk0", k, 0)
            ELSE Atom("pk1", k, 0)
  IN IF KeyTable[k].kind # kind \/ (isP /\ ~p) THEN NilPoly
     ELSE Poly(TRUE, IF isP THEN 0 ELSE MaxLevel,
               One("ntt", IF kind = "sk" THEN 1 ELSE 0, at))

(* the common reference polynomial: uniform, read as NTT-domain data *)
CrpPoly == Poly(TRUE, MaxLevel, One("ntt", 0, Atom("crp", 0, 0)))

(* a plaintext the caller supplies; nil when omitted *)
PtPoly(isNTT, lvl) ==
  Poly(isNTT, lvl, One(IF isNTT THEN "ntt" ELSE "coef", 0, Atom("pt", 0, 0)))

PtChoices == {NilPoly} \cup {PtPoly(f, l) : f \in BOOLEAN, l \in Levels}

(* a ciphertext as NewCiphertext / NewCiphertextNTT allocate it *)
NewCtPoly(isNTT, lvl) == Poly(isNTT, lvl, ZeroVal)

Heap0(p) ==
  [l \in Locs |->
     CASE l[1] = "ct" -> NewCtPoly(FALSE, MaxLevel)
       [] l[1] = "pt" -> NilPoly
       [] l[1] = "crp" -> CrpPoly
       [] l[1] = "rgsw.Q" -> NewCtPoly(TRUE, MaxLevel)
       [] l[1] = "rgsw.P" -> IF p THEN NewCtPoly(TRUE, 0) ELSE NilPoly
       [] l[1] \in KeyNames -> KeyPoly(l, p)
       [] OTHER -> NilPoly]

(* ------------------------ the executing call --------------------------- *)
(* st is one call in progress: the heap h and the sampler positions smp it *)
(* works on, its position pc, its outcome out ("run" while executing, "ok" *)
(* on return, else the panic), the receiver e, the arguments (hasPt: the   *)
(* plaintext is not nil; c: which RLWE ciphertext; tgt: the dynamic type   *)
(* of the ct argument), the locals, and what it has touched so far: cells  *)
(* read (rd) and written (wr), sampler sets (su) and basis extenders (bx)  *)
(* used, and the draws it made (dr).                                       *)

Panic(st, why) == [st EXCEPT !.pc = "panic", !.out = why]

Goto(st, pc) == IF st.out # "run" THEN st ELSE [st EXCEPT !.pc = pc]

Return(st) == IF st.out # "run" THEN st ELSE [st EXCEPT !.pc = "done", !.out = "ok"]

(* reading or writing through a nil *ring.Poly panics *)
Access(st, reads, writes, h2) ==
  IF st.out # "run" THEN st
  ELSE IF \E l \in reads \cup writes : ~st.h[l].ok THEN Panic(st, "nilderef")
  ELSE [st EXCEPT !.h = h2, !.rd = @ \cup reads, !.wr = @ \cup writes]

SetV(h, l, v) == [h EXCEPT ![l].v = v]

(* ring.Ring methods: p1 (and p2) are read, the last argument is written *)
NTTLvl(st, a, c) == Access(st, {a}, {c}, SetV(st.h, c, vNTT(st.h[a].v)))

InvNTTLvl(st, a, c) == Access(st, {a}, {c}, SetV(st.h, c, vInvNTT(st.h[a].v)))

MFormLvl(st, a, c) == Access(st, {a}, {c}, SetV(st.h, c, vMForm(st.h[a].v)))

NegLvl(st, a, c) == Access(st, {a}, {c}, SetV(st.h, c, vNeg(st.h[a].v)))

AddLvl(st, a, b, c) ==
  Access(st, {a, b}, {c}, SetV(st.h, c, vAdd(st.h[a].v, st.h[b].v)))

MulCoeffsMontgomeryLvl(st, a, b, c) ==
  Access(st, {a, b}, {c}, SetV(st.h, c, vMulMont(st.h[a].v, st.h[b].v)))

(* c = c - a*b *)
MulCoeffsMontgomeryAndSubLvl(st, a, b, c) ==
  Access(st, {a, b, c}, {c},
         SetV(st.h, c, vAdd(st.h[c].v, vNeg(vMulMont(st.h[a].v, st.h[b].v)))))

(* ring.CopyValues(p0, p1): the coefficients of p0 are copied onto p1 *)
CopyValues(st, a, c) == Access(st, {a}, {c}, SetV(st.h, c, st.h[a].v))

ExtendBasisSmallNormAndCenter(st, q, p) ==
  Access(st, {q}, {p}, SetV(st.h, p, vExtend(st.h[q].v)))

(* BasisExtender.ModDownQPtoQ: a nil extender panics *)
ModDownQPtoQ(st, q, p, c) ==
  IF st.e.bex = 0 THEN Panic(st, "nilderef")
  ELSE LET r == Access(st, {q, p}, {c}, SetV(st.h, c, vModDown(st.h[q].v, st.h[p].v)))
       IN IF r.out # "run" THEN r ELSE [r EXCEPT !.bx = @ \cup {st.e.bex}]

(* ringqp.Ring methods act on the Q half and, when RingP exists, the P half *)
QP(q, p) == [Q |-> q, P |-> p]

NTTLvlQP(st, a, c) ==
  LET r == NTTLvl(st, a.Q, c.Q) IN IF st.P THEN NTTLvl(r, a.P, c.P) ELSE r

InvNTTLvlQP(st, a, c) ==
  LET r == InvNTTLvl(st, a.Q, c.Q) IN IF st.P THEN InvNTTLvl(r, a.P, c.P) ELSE r

MFormLvlQP(st, a, c) ==
  LET r == MFormLvl(st, a.Q, c.Q) IN IF st.P THEN MFormLvl(r, a.P, c.P) ELSE r

AddLvlQP(st, a, b, c) ==
  LET r == AddLvl(st, a.Q, b.Q, c.Q) IN IF st.P THEN AddLvl(r, a.P, b.P, c.P) ELSE r

MulCoeffsMontgomeryLvlQP(st, a, b, c) ==
  LET r == MulCoeffsMontgomeryLvl(st, a.Q, b.Q, c.Q)
  IN IF st.P THEN MulCoeffsMontgomeryLvl(r, a.P, b.P, c.P) ELSE r

MulCoeffsMontgomeryAndSubLvlQP(st, a, b, c) ==
  LET r == MulCoeffsMontgomeryAndSubLvl(st, a.Q, b.Q, c.Q)
  IN IF st.P THEN MulCoeffsMontgomeryAndSubLvl(r, a.P, b.P, c.P) ELSE r

(* ------------------------------ samplers ------------------------------- *)
(* The four samplers of one encryptorSamplers share one PRNG: smp[s] is    *)
(* how many polynomials have been drawn from it.  A draw is the atom       *)
(* (kind, s, position).  Gaussian and ternary draws are coefficient-domain *)
(* data; a uniform draw is uniform in either domain and is read, as the    *)
(* code reads it, as NTT-domain data.                                      *)

DrawDom(kind) == IF kind \in {"gauss", "tern"} THEN "coef" ELSE "ntt"

Draw(st, kind) == Atom(kind, st.e.smp, st.smp[st.e.smp] + 1)

Drawn(st, kind) ==
  [st EXCEPT !.smp[st.e.smp] = @ + 1, !.su = @ \cup {st.e.smp},
             !.dr = @ \cup {Draw(st, kind)}]

(* sampler.ReadLvl(level, pol): pol is overwritten with a fresh sample *)
ReadLvl(st, kind, c) ==
  LET r == Access(st, {}, {c}, SetV(st.h, c, One(DrawDom(kind), 0, Draw(st, kind))))
  IN IF r.out # "run" THEN r ELSE Drawn(r, kind)

(* GaussianSampler.ReadAndAddLvl(level, pol): a fresh sample is added to pol *)
ReadAndAddLvl(st, c) ==
  LET r == Access(st, {c}, {c},
                  SetV(st.h, c, vAdd(st.h[c].v, One("coef", 0, Draw(st, "gauss")))))
  IN IF r.out # "run" THEN r ELSE Drawn(r, "gauss")

(* ------------------------- levels and flags ---------------------------- *)

MinInt(a, b) == IF a < b THEN a ELSE b

(* Plaintext.Level() is defined outside the source at hand.  For a nil    *)
(* plaintext it either dereferences nil (nl < 0: the call panics) or, if  *)
(* the accessor tolerates nil, returns some level nl.                     *)
PlaintextLevel(st) == IF st.hasPt THEN st.h[Pt(st.c)].lvl ELSE st.nl

CiphertextLevel(st) == st.h[Ct0(st.c)].lvl

(* levelQ := utils.MinInt(plaintext.Level(), ciphertext.Level()) *)
(* a variant that takes the plaintext's level alone *)
LevelQ_PlaintextOnly(st) == PlaintextLevel(st)

LevelQ(st) == MinInt(PlaintextLevel(st), CiphertextLevel(st))

SetLevelQ(st) ==
  IF PlaintextLevel(st) < 0 THEN Panic(st, "nilderef")
  ELSE [st EXCEPT !.levelQ = LevelQ(st)]

(* ciphertextNTT := ciphertext.Value[0].IsNTT *)
SetCiphertextNTT(st) ==
  IF st.out # "run" THEN st ELSE [st EXCEPT !.cNTT = st.h[Ct0(st.c)].IsNTT]

(* ciphertext.Value[1].IsNTT = ciphertext.Value[0].IsNTT                  *)
(* ciphertext.Value[0].Coeffs = ciphertext.Value[0].Coeffs[:levelQ+1]     *)
(* ciphertext.Value[1].Coeffs = ciphertext.Value[1].Coeffs[:levelQ+1]     *)
SetFlagAndLevels(st) ==
  LET c0 == Ct0(st.c)
      c1 == Ct1(st.c)
  IN Access(st, {c0}, {c0, c1},
            [st.h EXCEPT ![c1].IsNTT = st.h[c0].IsNTT,
                         ![c0].lvl = st.levelQ, ![c1].lvl = st.levelQ])

PtIsNTT(st) == st.h[Pt(st.c)].IsNTT

BuffQ0(st) == Loc("buffQ0", st.e.buf)

BuffP(st, n) == Loc(IF n = 0 THEN "buffP0" ELSE IF n = 1 THEN "buffP1" ELSE "buffP2", st.e.buf)

PoolQP(st) == QP(Loc("poolQP.Q", st.e.buf), Loc("poolQP.P", st.e.buf))

Sk(st) == QP(Loc("sk.Q", st.e.key), Loc("sk.P", st.e.key))

Pk(st, n) ==
  IF n = 0 THEN QP(Loc("pk0.Q", st.e.key), Loc("pk0.P", st.e.key))
  ELSE QP(Loc("pk1.Q", st.e.key), Loc("pk1.P", st.e.key))

(* --------------------- skEncryptor: Encrypt, CRP ----------------------- *)

skEncryptSwitch(st) ==
  CASE st.tgt = "rlwe" -> Goto(st, "L164")
    [] st.tgt = "rgsw" -> Goto(st, "L426")
    [] OTHER -> Panic(st, "unsupported")

(* a variant with the arguments of CopyValues exchanged *)
skCopyCRP_Swapped(st) == CopyValues(st, Ct1(st.c), Crp)

(* ring.CopyValues(crp, ct.Value[1]) *)
skCopyCRP(st) == CopyValues(st, Crp, Ct1(st.c))

(* enc.uniformSamplerQ.ReadLvl(utils.MinInt(pt.Level(), el.Level()), el.Value[1]) *)
ReadMask(st) ==
  IF PlaintextLevel(st) < 0 THEN Panic(st, "nilderef")
  ELSE ReadLvl(st, "unif", Ct1(st.c))

Step_skEncrypt(st) ==
  CASE st.pc = "L162" -> skEncryptSwitch(st)
    [] st.pc = "L164" -> Goto(ReadMask(st), "L365")
    [] st.pc = "L176" -> Goto(skCopyCRP(st), "L365")

(* ----------------------- skEncryptor.encryptRLWE ----------------------- *)

Step_skEncryptRLWE(st) ==
  LET c0 == Ct0(st.c)
      c1 == Ct1(st.c)
      pt == Pt(st.c)
      b0 == BuffQ0(st)
  IN CASE st.pc = "L365" -> Goto(SetCiphertextNTT(SetLevelQ(st)), "L371")
       [] st.pc = "L371" -> Goto(MulCoeffsMontgomeryLvl(st, c1, Sk(st).Q, c0), "L372")
       [] st.pc = "L372" -> Goto(NegLvl(st, c0, c0), "L374")
       [] st.pc = "L374" -> Goto(st, IF st.cNTT THEN "L376" ELSE "L400")
       [] st.pc = "L376" -> Goto(ReadLvl(st, "gauss", b0), "L388")
       [] st.pc = "L388" ->
            Goto(st, IF st.hasPt THEN (IF PtIsNTT(st) THEN "L390" ELSE "L394") ELSE "L417")
       [] st.pc = "L390" -> Goto(NTTLvl(st, b0, b0), "L391")
       [] st.pc = "L391" -> Goto(AddLvl(st, c0, b0, c0), "L392")
       [] st.pc = "L392" -> Goto(AddLvl(st, c0, pt, c0), "L417")
       [] st.pc = "L394" -> Goto(AddLvl(st, b0, pt, b0), "L395")
       [] st.pc = "L395" -> Goto(NTTLvl(st, b0, b0), "L396")
       [] st.pc = "L396" -> Goto(AddLvl(st, c0, b0, c0), "L417")
       [] st.pc = "L400" ->
            Goto(st, IF st.hasPt THEN (IF PtIsNTT(st) THEN "L402" ELSE "L406") ELSE "L412")
       [] st.pc = "L402" -> Goto(AddLvl(st, c0, pt, c0), "L403")
       [] st.pc = "L403" -> Goto(InvNTTLvl(st, c0, c0), "L412")
       [] st.pc = "L406" -> Goto(InvNTTLvl(st, c0, c0), "L407")
       [] st.pc = "L407" -> Goto(AddLvl(st, c0, pt, c0), "L412")
       [] st.pc = "L412" -> Goto(ReadAndAddLvl(st, c0), "L414")
       [] st.pc = "L414" -> Goto(InvNTTLvl(st, c1, c1), "L417")
       [] st.pc = "L417" -> Return(SetFlagAndLevels(st))

(* --------------------- pkEncryptor: Encrypt, CRP ----------------------- *)

(* a variant whose type switch also takes the RLWE branch for RGSW *)
pkEncryptSwitch_AlsoRGSW(st) ==
  CASE st.tgt \in {"rlwe", "rgsw"} -> Goto(st, "L137")
    [] OTHER -> Panic(st, "unsupported")

pkEncryptSwitch(st) ==
  CASE st.tgt = "rlwe" -> Goto(st, "L137")
    [] OTHER -> Panic(st, "unsupported")

Step_pkEncrypt(st) ==
  CASE st.pc = "L135" -> pkEncryptSwitch(st)
    [] st.pc = "L137" -> Goto(ReadMask(st), "L138")
    [] st.pc = "L138" -> Goto(st, IF st.e.bex # 0 THEN "L184" ELSE "L277")
    [] st.pc = "L151" -> Panic(st, "crp-pk")

(* ----------------------- pkEncryptor.encryptRLWE ----------------------- *)

(* a variant that divides by P first and adds the two Gaussians after it *)
Step_pkEncryptRLWE_NoiseAfterModDown(st) ==
  LET c0 == Ct0(st.c)
      c1 == Ct1(st.c)
      pt == Pt(st.c)
      b0 == BuffQ0(st)
      u == QP(BuffQ0(st), BuffP(st, 2))
      e == QP(BuffQ0(st), BuffP(st, 2))
      ct0QP == QP(c0, BuffP(st, 0))
      ct1QP == QP(c1, BuffP(st, 1))
  IN CASE st.pc = "L184" -> Goto(SetCiphertextNTT(SetLevelQ(st)), "L202")
       [] st.pc = "L202" -> Goto(ReadLvl(st, "tern", u.Q), "L203")
       [] st.pc = "L203" -> Goto(ExtendBasisSmallNormAndCenter(st, u.Q, u.P), "L206")
       [] st.pc = "L206" -> Goto(NTTLvlQP(st, u, u), "L207")
       [] st.pc = "L207" -> Goto(MFormLvlQP(st, u, u), "L219")
       [] st.pc = "L219" -> Goto(MulCoeffsMontgomeryLvlQP(st, u, Pk(st, 0), ct0QP), "L220")
       [] st.pc = "L220" -> Goto(MulCoeffsMontgomeryLvlQP(st, u, Pk(st, 1), ct1QP), "L223")
       [] st.pc = "L223" -> Goto(InvNTTLvlQP(st, ct0QP, ct0QP), "L224")
       [] st.pc = "L224" -> Goto(InvNTTLvlQP(st, ct1QP, ct1QP), "L241")
       [] st.pc = "L232" -> Goto(ReadLvl(st, "gauss", e.Q), "L233")
       [] st.pc = "L233" -> Goto(ExtendBasisSmallNormAndCenter(st, e.Q, e.P), "L234")
       [] st.pc = "L234" -> Goto(AddLvlQP(st, ct0QP, e, ct0QP), "L236")
       [] st.pc = "L236" -> Goto(ReadLvl(st, "gauss", e.Q), "L237")
       [] st.pc = "L237" -> Goto(ExtendBasisSmallNormAndCenter(st, e.Q, e.P), "L238")
       [] st.pc = "L238" -> Goto(AddLvlQP(st, ct1QP, e, ct1QP), "L246")
       [] st.pc = "L241" -> Goto(ModDownQPtoQ(st, ct0QP.Q, ct0QP.P, ct0QP.Q), "L244")
       [] st.pc = "L244" -> Goto(ModDownQPtoQ(st, ct1QP.Q, ct1QP.P, ct1QP.Q), "L232")
       [] st.pc = "L246" -> Goto(st, IF st.cNTT THEN "L248" ELSE "L261")
       [] st.pc = "L248" ->
            Goto(st, IF st.hasPt /\ ~PtIsNTT(st) THEN "L249" ELSE "L253")
       [] st.pc = "L249" -> Goto(AddLvl(st, c0, pt, c0), "L253")
       [] st.pc = "L253" -> Goto(NTTLvl(st, c0, c0), "L254")
       [] st.pc = "L254" -> Goto(NTTLvl(st, c1, c1), "L256")
       [] st.pc = "L256" ->
            Goto(st, IF st.hasPt /\ PtIsNTT(st) THEN "L258" ELSE "L271")
       [] st.pc = "L258" -> Goto(AddLvl(st, c0, pt, c0), "L271")
       [] st.pc = "L261" ->
            Goto(st, IF st.hasPt THEN (IF ~PtIsNTT(st) THEN "L264" ELSE "L266") ELSE "L271")
       [] st.pc = "L264" -> Goto(AddLvl(st, c0, pt, c0), "L271")
       [] st.pc = "L266" -> Goto(InvNTTLvl(st, pt, b0), "L267")
       [] st.pc = "L267" -> Goto(AddLvl(st, c0, b0, c0), "L271")
       [] st.pc = "L271" -> Return(SetFlagAndLevels(st))

Step_pkEncryptRLWE(st) ==
  LET c0 == Ct0(st.c)
      c1 == Ct1(st.c)
      pt == Pt(st.c)
      b0 == BuffQ0(st)
      u == QP(BuffQ0(st), BuffP(st, 2))
      e == QP(BuffQ0(st), BuffP(st, 2))
      ct0QP == QP(c0, BuffP(st, 0))
      ct1QP == QP(c1, BuffP(st, 1))
  IN CASE st.pc = "L184" -> Goto(SetCiphertextNTT(SetLevelQ(st)), "L202")
       [] st.pc = "L202" -> Goto(ReadLvl(st, "tern", u.Q), "L203")
       [] st.pc = "L203" -> Goto(ExtendBasisSmallNormAndCenter(st, u.Q, u.P), "L206")
       [] st.pc = "L206" -> Goto(NTTLvlQP(st, u, u), "L207")
       [] st.pc = "L207" -> Goto(MFormLvlQP(st, u, u), "L219")
       [] st.pc = "L219" -> Goto(MulCoeffsMontgomeryLvlQP(st, u, Pk(st, 0), ct0QP), "L220")
       [] st.pc = "L220" -> Goto(MulCoeffsMontgomeryLvlQP(st, u, Pk(st, 1), ct1QP), "L223")
       [] st.pc = "L223" -> Goto(InvNTTLvlQP(st, ct0QP, ct0QP), "L224")
       [] st.pc = "L224" -> Goto(InvNTTLvlQP(st, ct1QP, ct1QP), "L232")
       [] st.pc = "L232" -> Goto(ReadLvl(st, "gauss", e.Q), "L233")
       [] st.pc = "L233" -> Goto(ExtendBasisSmallNormAndCenter(st, e.Q, e.P), "L234")
       [] st.pc = "L234" -> Goto(AddLvlQP(st, ct0QP, e, ct0QP), "L236")
       [] st.pc = "L236" -> Goto(ReadLvl(st, "gauss", e.Q), "L237")
       [] st.pc = "L237" -> Goto(ExtendBasisSmallNormAndCenter(st, e.Q, e.P), "L238")
       [] st.pc = "L238" -> Goto(AddLvlQP(st, ct1QP, e, ct1QP), "L241")
       [] st.pc = "L241" -> Goto(ModDownQPtoQ(st, ct0QP.Q, ct0QP.P, ct0QP.Q), "L244")
       [] st.pc = "L244" -> Goto(ModDownQPtoQ(st, ct1QP.Q, ct1QP.P, ct1QP.Q), "L246")
       [] st.pc = "L246" -> Goto(st, IF st.cNTT THEN "L248" ELSE "L261")
       [] st.pc = "L248" ->
            Goto(st, IF st.hasPt /\ ~PtIsNTT(st) THEN "L249" ELSE "L253")
       [] st.pc = "L249" -> Goto(AddLvl(st, c0, pt, c0), "L253")
       [] st.pc = "L253" -> Goto(NTTLvl(st, c0, c0), "L254")
       [] st.pc = "L254" -> Goto(NTTLvl(st, c1, c1), "L256")
       [] st.pc = "L256" ->
            Goto(st, IF st.hasPt /\ PtIsNTT(st) THEN "L258" ELSE "L271")
       [] st.pc = "L258" -> Goto(AddLvl(st, c0, pt, c0), "L271")
       [] st.pc = "L261" ->
            Goto(st, IF st.hasPt THEN (IF ~PtIsNTT(st) THEN "L264" ELSE "L266") ELSE "L271")
       [] st.pc = "L264" -> Goto(AddLvl(st, c0, pt, c0), "L271")
       [] st.pc = "L266" -> Goto(InvNTTLvl(st, pt, b0), "L267")
       [] st.pc = "L267" -> Goto(AddLvl(st, c0, b0, c0), "L271")
       [] st.pc = "L271" -> Return(SetFlagAndLevels(st))

(* ---------------------- pkEncryptor.encryptNoPRLWE --------------------- *)

Step_pkEncryptNoPRLWE(st) ==
  LET c0 == Ct0(st.c)
      c1 == Ct1(st.c)
      pt == Pt(st.c)
      b0 == BuffQ0(st)
  IN CASE st.pc = "L277" -> Goto(SetCiphertextNTT(SetLevelQ(st)), "L285")
       [] st.pc = "L285" -> Goto(ReadLvl(st, "tern", b0), "L286")
       [] st.pc = "L286" -> Goto(NTTLvl(st, b0, b0), "L287")
       [] st.pc = "L287" -> Goto(MFormLvl(st, b0, b0), "L290")
       [] st.pc = "L290" -> Goto(MulCoeffsMontgomeryLvl(st, b0, Pk(st, 0).Q, c0), "L292")
       [] st.pc = "L292" -> Goto(MulCoeffsMontgomeryLvl(st, b0, Pk(st, 1).Q, c1), "L294")
       [] st.pc = "L294" -> Goto(st, IF st.cNTT THEN "L297" ELSE "L329")
       [] st.pc = "L297" -> Goto(ReadLvl(st, "gauss", b0), "L298")
       [] st.pc = "L298" -> Goto(NTTLvl(st, b0, b0), "L299")
       [] st.pc = "L299" -> Goto(AddLvl(st, c1, b0, c1), "L302")
       [] st.pc = "L302" -> Goto(ReadLvl(st, "gauss", b0), "L314")
       [] st.pc = "L314" ->
            Goto(st, IF st.hasPt THEN (IF ~PtIsNTT(st) THEN "L316" ELSE "L320") ELSE "L356")
       [] st.pc = "L316" -> Goto(AddLvl(st, b0, pt, b0), "L317")
       [] st.pc = "L317" -> Goto(NTTLvl(st, b0, b0), "L318")
       [] st.pc = "L318" -> Goto(AddLvl(st, c0, b0, c0), "L356")
       [] st.pc = "L320" -> Goto(NTTLvl(st, b0, b0), "L321")
       [] st.pc = "L321" -> Goto(AddLvl(st, c0, b0, c0), "L322")
       [] st.pc = "L322" -> Goto(AddLvl(st, c0, pt, c0), "L356")
       [] st.pc = "L329" -> Goto(InvNTTLvl(st, c0, c0), "L330")
       [] st.pc = "L330" -> Goto(InvNTTLvl(st, c1, c1), "L333")
       [] st.pc = "L333" -> Goto(ReadAndAddLvl(st, c0), "L336")
       [] st.pc = "L336" -> Goto(ReadAndAddLvl(st, c1), "L345")
       [] st.pc = "L345" ->
            Goto(st, IF st.hasPt THEN (IF ~PtIsNTT(st) THEN "L347" ELSE "L349") ELSE "L356")
       [] st.pc = "L347" -> Goto(AddLvl(st, c0, pt, c0), "L356")
       [] st.pc = "L349" -> Goto(InvNTTLvl(st, pt, b0), "L350")
       [] st.pc = "L350" -> Goto(AddLvl(st, c0, b0, c0), "L356")
       [] st.pc = "L356" -> Return(SetFlagAndLevels(st))

(* ------------------- encryptor.encryptZeroSymetricQP ------------------- *)
(* The destination pair ct is entry (i, j) of gadget matrix m of the RGSW  *)
(* ciphertext; sample, montgomery and ntt are the frame's zsample, zmont   *)
(* and zntt; the call returns to st.ret.                                   *)

ZsCt(st, n) == QP(GQ(st.m, st.i, st.j, n), GP(st.m, st.i, st.j, n))

(* enc.uniformSamplerP.ReadLvl(levelP, ct[1].P): a nil sampler panics *)
ReadUniformP(st, c) ==
  IF ~st.e.smpP THEN Panic(st, "nilderef") ELSE ReadLvl(st, "unifP", c)

Step_encryptZeroSymetricQP(st) ==
  LET ct0 == ZsCt(st, 0)
      ct1 == ZsCt(st, 1)
      e == PoolQP(st)
  IN CASE st.pc = "L458" -> Goto([st EXCEPT !.hmp = st.h[ct0.P].ok], "L460")
       [] st.pc = "L460" -> Goto(st, IF st.zntt THEN "L461" ELSE "L470")
       [] st.pc = "L461" -> Goto(ReadLvl(st, "gauss", ct0.Q), "L463")
       [] st.pc = "L463" -> Goto(st, IF st.hmp THEN "L464" ELSE "L467")
       [] st.pc = "L464" -> Goto(ExtendBasisSmallNormAndCenter(st, ct0.Q, ct0.P), "L467")
       [] st.pc = "L467" -> Goto(NTTLvlQP(st, ct0, ct0), "L470")
       [] st.pc = "L470" -> Goto(st, IF st.zsample THEN "L471" ELSE "L478")
       [] st.pc = "L471" -> Goto(ReadLvl(st, "unif", ct1.Q), "L473")
       [] st.pc = "L473" -> Goto(st, IF st.hmp THEN "L474" ELSE "L478")
       [] st.pc = "L474" -> Goto(ReadUniformP(st, ct1.P), "L478")
       [] st.pc = "L478" -> Goto(MulCoeffsMontgomeryAndSubLvlQP(st, ct1, Sk(st), ct0), "L480")
       [] st.pc = "L480" -> Goto(st, IF ~st.zntt THEN "L481" ELSE "L494")
       [] st.pc = "L481" -> Goto(InvNTTLvlQP(st, ct0, ct0), "L482")
       [] st.pc = "L482" -> Goto(InvNTTLvlQP(st, ct1, ct1), "L485")
       [] st.pc = "L485" -> Goto(ReadLvl(st, "gauss", e.Q), "L487")
       [] st.pc = "L487" -> Goto(st, IF st.hmp THEN "L488" ELSE "L491")
       [] st.pc = "L488" -> Goto(ExtendBasisSmallNormAndCenter(st, e.Q, e.P), "L491")
       [] st.pc = "L491" -> Goto(AddLvlQP(st, ct0, e, ct0), "L494")
       [] st.pc = "L494" -> Goto(st, IF st.zmont THEN "L495" ELSE st.ret)
       [] st.pc = "L495" -> Goto(MFormLvlQP(st, ct0, ct0), "L496")
       [] st.pc = "L496" -> Goto(MFormLvlQP(st, ct1, ct1), st.ret)

(* ----------------------- skEncryptor.encryptRGSW ----------------------- *)

(* gadget.AddPolyToGadgetMatrix(pt, {ct.Value[0], ct.Value[1]}, ringQP,    *)
(* logbase2, buff): the plaintext times gadget digit (i, j) is added to    *)
(* component m of every entry (i, j) of matrix m; buff is scratch.         *)
vScale(v, w) == [v EXCEPT !.terms = {[t EXCEPT !.a = @ \cup {w}] : t \in @}]

GadgetCells == {<<m, i, j>> : m \in 0..1, i \in 0..(DecompRNS - 1), j \in 0..(DecompBIT - 1)}

AddPolyToGadgetMatrix(st, pt, buff) ==
  LET cells == {GQ(x[1], x[2], x[3], x[1]) : x \in GadgetCells}
      scaled(l) == vScale(st.h[pt].v, Atom("w", (l[2] \div 2) % (DecompRNS * DecompBIT), 0))
      h2 == [l \in Locs |->
               IF l \in cells THEN [st.h[l] EXCEPT !.v = vAdd(@, scaled(l))]
               ELSE IF l = buff
                 THEN [st.h[l] EXCEPT !.v = vScale(@, Atom("w", DecompRNS * DecompBIT - 1, 0))]
               ELSE st.h[l]]
  IN Access(st, {pt} \cup cells, {buff} \cup cells, h2)

(* a variant that adds the plaintext first and encrypts zero after it *)
Step_skEncryptRGSW_PlaintextFirst(st) ==
  LET pt == Pt(st.c)
      pool == PoolQP(st)
  IN CASE st.pc = "L426" -> Goto([st EXCEPT !.j = 0, !.i = 0], "L439")
       [] st.pc = "L432" -> IF st.j < DecompBIT THEN Goto(st, "L433") ELSE Return(st)
       [] st.pc = "L433" ->
            IF st.i < DecompRNS THEN Goto(st, "L434")
            ELSE Goto([st EXCEPT !.j = @ + 1, !.i = 0], "L432")
       [] st.pc = "L434" ->
            Goto([st EXCEPT !.m = 0, !.ret = "L435", !.zsample = TRUE,
                            !.zmont = TRUE, !.zntt = TRUE], "L458")
       [] st.pc = "L435" ->
            Goto([st EXCEPT !.m = 1, !.ret = "L436", !.zsample = TRUE,
                            !.zmont = TRUE, !.zntt = TRUE], "L458")
       [] st.pc = "L436" -> Goto([st EXCEPT !.i = @ + 1], "L433")
       [] st.pc = "L439" -> Goto(st, IF st.hasPt THEN "L440" ELSE "L432")
       [] st.pc = "L440" -> Goto(MFormLvl(st, pt, pool.Q), "L441")
       [] st.pc = "L441" -> Goto(st, IF ~PtIsNTT(st) THEN "L442" ELSE "L444")
       [] st.pc = "L442" -> Goto(NTTLvl(st, pool.Q, pool.Q), "L444")
       [] st.pc = "L444" -> Goto(AddPolyToGadgetMatrix(st, pool.Q, pool.Q), "L432")

Step_skEncryptRGSW(st) ==
  LET pt == Pt(st.c)
      pool == PoolQP(st)
  IN CASE st.pc = "L426" -> Goto([st EXCEPT !.j = 0, !.i = 0], "L432")
       [] st.pc = "L432" -> Goto(st, IF st.j < DecompBIT THEN "L433" ELSE "L439")
       [] st.pc = "L433" ->
            IF st.i < DecompRNS THEN Goto(st, "L434")
            ELSE Goto([st EXCEPT !.j = @ + 1, !.i = 0], "L432")
       [] st.pc = "L434" ->
            Goto([st EXCEPT !.m = 0, !.ret = "L435", !.zsample = TRUE,
                            !.zmont = TRUE, !.zntt = TRUE], "L458")
       [] st.pc = "L435" ->
            Goto([st EXCEPT !.m = 1, !.ret = "L436", !.zsample = TRUE,
                            !.zmont = TRUE, !.zntt = TRUE], "L458")
       [] st.pc = "L436" -> Goto([st EXCEPT !.i = @ + 1], "L433")
       [] st.pc = "L439" -> IF st.hasPt THEN Goto(st, "L440") ELSE Return(st)
       [] st.pc = "L440" -> Goto(MFormLvl(st, pt, pool.Q), "L441")
       [] st.pc = "L441" -> Goto(st, IF ~PtIsNTT(st) THEN "L442" ELSE "L444")
       [] st.pc = "L442" -> Goto(NTTLvl(st, pool.Q, pool.Q), "L444")
       [] st.pc = "L444" -> Return(AddPolyToGadgetMatrix(st, pool.Q, pool.Q))

(* ------------------------------ one step ------------------------------- *)

PcSkEncrypt == {"L162", "L164", "L176"}

PcPkEncrypt == {"L135", "L137", "L138", "L151"}

PcSkRLWE == {"L365", "L371", "L372", "L374", "L376", "L388", "L390", "L391", "L392",
             "L394", "L395", "L396", "L400", "L402", "L403", "L406", "L407", "L412",
             "L414", "L417"}

PcPkNoP == {"L277", "L285", "L286", "L287", "L290", "L292", "L294", "L297", "L298",
            "L299", "L302", "L314", "L316", "L317", "L318", "L320", "L321", "L322",
            "L329", "L330", "L333", "L336", "L345", "L347", "L349", "L350", "L356"}

PcZs == {"L458", "L460", "L461", "L463", "L464", "L467", "L470", "L471", "L473",
         "L474", "L478", "L480", "L481", "L482", "L485", "L487", "L488", "L491",
         "L494", "L495", "L496"}

PcRGSW == {"L426", "L432", "L433", "L434", "L435", "L436", "L439", "L440", "L441",
           "L442", "L444"}

Step(st) ==
  CASE st.pc \in PcSkEncrypt -> Step_skEncrypt(st)
    [] st.pc \in PcPkEncrypt -> Step_pkEncrypt(st)
    [] st.pc \in PcSkRLWE -> Step_skEncryptRLWE(st)
    [] st.pc \in PcPkNoP -> Step_pkEncryptNoPRLWE(st)
    [] st.pc \in PcZs -> Step_encryptZeroSymetricQP(st)
    [] st.pc \in PcRGSW -> Step_skEncryptRGSW(st)
    [] OTHER -> Step_pkEncryptRLWE(st)

Running(st) == st.out = "run"

RECURSIVE Run(_)
Run(st) == IF Running(st) THEN Run(Step(st)) ELSE st

(* ---------------------- construction and cloning ----------------------- *)
(* An Encryptor value: its variant and key, and the identities of the      *)
(* objects its embedded pointers refer to (encryptorBase, encryptorSamplers*)
(* with smpP: uniformSamplerP is not nil, encryptorBuffers, basisextender, *)
(* 0 for nil).  id is the identity the allocator hands out.                *)

Inst(variant, key, base, s, sP, buf, bex) ==
  [variant |-> variant, key |-> key, base |-> base, smp |-> s, smpP |-> sP,
   buf |-> buf, bex |-> bex]

NoInst == Inst("none", 0, 0, 0, FALSE, 0, 0)

(* newEncryptor(params), and a variant that makes the basis extender      *)
(* whether or not P is configured                                         *)
newEncryptor_AlwaysExtender(id, p) == Inst("none", 0, id, id, p, id, id)

newEncryptor(id, p) == Inst("none", 0, id, id, p, id, IF p THEN id ELSE 0)

(* newEncryptorBuffers(params): the buffers of identity id *)
newEncryptorBuffers(h, id, p) ==
  [l \in Locs |->
     IF l \in BufLocs(id)
       THEN IF l[1] \in PBufNames
              THEN (IF p THEN NewCtPoly(FALSE, 0) ELSE NilPoly)
              ELSE NewCtPoly(FALSE, MaxLevel)
       ELSE h[l]]

(* newEncryptorSamplers(params): a new PRNG *)
newEncryptorSamplers(s, id) == [s EXCEPT ![id] = 0]

(* encryptor.setKey(key) *)
(* a variant that checks only the first component of a public key *)
setKey_FirstComponentOnly(enc, key) ==
  LET k == KeyTable[key]
  IN CASE k.kind = "pk" ->
            IF k.d0 # ParamsN
              THEN [out |-> "setKey: pk ring degree", inst |-> NoInst]
              ELSE [out |-> "ok", inst |-> [enc EXCEPT !.variant = "pk", !.key = key]]
       [] k.kind = "sk" ->
            IF k.d0 # ParamsN
              THEN [out |-> "setKey: sk ring degree", inst |-> NoInst]
              ELSE [out |-> "ok", inst |-> [enc EXCEPT !.variant = "sk", !.key = key]]
       [] OTHER -> [out |-> "setKey: key type", inst |-> NoInst]

setKey(enc, key) ==
  LET k == KeyTable[key]
  IN CASE k.kind = "pk" ->
            IF k.d0 # ParamsN \/ k.d1 # ParamsN
              THEN [out |-> "setKey: pk ring degree", inst |-> NoInst]
              ELSE [out |-> "ok", inst |-> [enc EXCEPT !.variant = "pk", !.key = key]]
       [] k.kind = "sk" ->
            IF k.d0 # ParamsN
              THEN [out |-> "setKey: sk ring degree", inst |-> NoInst]
              ELSE [out |-> "ok", inst |-> [enc EXCEPT !.variant = "sk", !.key = key]]
       [] OTHER -> [out |-> "setKey: key type", inst |-> NoInst]

(* a variant that copies the struct, buffers included *)
encryptorShallowCopy_SharedBuffers(enc, id, p) ==
  [enc EXCEPT !.smp = id, !.smpP = p, !.bex = IF p THEN id ELSE 0]

(* encryptor.ShallowCopy(), and the pk/sk wrappers that keep the key *)
encryptorShallowCopy(enc, id, p) ==
  [enc EXCEPT !.smp = id, !.smpP = p, !.buf = id, !.bex = IF p THEN id ELSE 0]

(* a variant that binds the key without cloning the receiver *)
encryptorWithKey_NoCopy(enc, key, id, p) == setKey(enc, key)

(* encryptor.WithKey(key) *)
encryptorWithKey(enc, key, id, p) == setKey(encryptorShallowCopy(enc, id, p), key)

(* ------------------------------ state ---------------------------------- *)
(* hasP: params.PCount() != 0.  nilLevel: what Plaintext.Level() does on a *)
(* nil receiver (-1: panics).  tgt: the dynamic type of the ciphertext the *)
(* caller owns and passes as ct ("rlwe": *rlwe.Ciphertext, "rgsw":         *)
(* *rgsw.Ciphertext, "other": anything else).  encs: the Encryptors        *)
(* created so far.  heap, smp: ring elements and PRNG positions.  last:    *)
(* the operation that led to this state, its arguments, its outcome and    *)
(* what it touched.  th: the calls in progress of ConcSpec.                *)

NoCall ==
  [op |-> "none", e |-> 0, key |-> 0, pt |-> NilPoly,
   inNTT |-> FALSE, inLvl |-> 0, inCt1 |-> ZeroVal, out |-> "ok",
   rd |-> {}, wr |-> {}, su |-> {}, bx |-> {}, dr |-> {}]

StartSt(entry, inst, hasPt, t, c, h, s, p, nl) ==
  [h |-> h, smp |-> s, pc |-> entry, out |-> "run", e |-> inst, hasPt |-> hasPt,
   c |-> c, tgt |-> t, P |-> p, nl |-> nl, levelQ |-> 0, cNTT |-> FALSE,
   i |-> 0, j |-> 0, m |-> 0, ret |-> "done", hmp |-> FALSE,
   zsample |-> FALSE, zmont |-> FALSE, zntt |-> FALSE,
   rd |-> {}, wr |-> {}, su |-> {}, bx |-> {}, dr |-> {}]

EntryEncrypt(inst) == IF inst.variant = "pk" THEN "L135" ELSE "L162"

EntryCRP(inst) == IF inst.variant = "pk" THEN "L151" ELSE "L176"

Called(op, e, ptc, h, r) ==
  [op |-> op, e |-> e, key |-> 0, pt |-> ptc,
   inNTT |-> h[Ct0(0)].IsNTT, inLvl |-> h[Ct0(0)].lvl, inCt1 |-> h[Ct1(0)].v,
   out |-> r.out, rd |-> r.rd, wr |-> r.wr, su |-> r.su, bx |-> r.bx, dr |-> r.dr]

Made(op, e, key, out) == [NoCall EXCEPT !.op = op, !.e = e, !.key = key, !.out = out]

NilLevels == {-1, MaxLevel}

(* the caller's ciphertext: fresh, of either domain flag, at any level *)
CtHeap(p, t) ==
  {[Heap0(p) EXCEPT ![Ct0(0)] = NewCtPoly(f, l), ![Ct1(0)] = NewCtPoly(f, l)] :
     f \in IF t = "rlwe" THEN BOOLEAN ELSE {TRUE},
     l \in IF t = "rlwe" THEN Levels ELSE {MaxLevel}}

(* the LWE bridge, the bootstrapping parameters and the test driver, when *)
(* the behaviour is not about them                                        *)
NoLWE == [pc |-> "none"]

NoBoot == [pc |-> "none"]

NoTest == [pc |-> "none"]

(* One Encryptor has been constructed: enc := NewEncryptor(params, key). *)
Init ==
  /\ hasP \in BOOLEAN
  /\ nilLevel \in NilLevels
  /\ tgt \in {"rlwe", "rgsw", "other"}
  /\ \E key \in Keys, h \in CtHeap(hasP, tgt) :
       \E r \in {setKey(newEncryptor(1, hasP), key)} :
          /\ r.out = "ok"
          /\ encs = <<r.inst>>
          /\ heap = newEncryptorBuffers(h, 1, hasP)
  /\ smp = [i \in 1..MaxEnc |-> 0]
  /\ last = NoCall
  /\ th = <<>>
  /\ lwe = NoLWE /\ boot = NoBoot /\ test = NoTest

(* No Encryptor has been constructed yet. *)
LifeInit ==
  /\ hasP \in BOOLEAN
  /\ nilLevel = -1
  /\ tgt = "rlwe"
  /\ encs = <<>>
  /\ heap \in {h \in CtHeap(hasP, tgt) : h[Ct0(0)].lvl = MaxLevel}
  /\ smp = [i \in 1..MaxEnc |-> 0]
  /\ last = NoCall
  /\ th = <<>>
  /\ lwe = NoLWE /\ boot = NoBoot /\ test = NoTest

(* NewEncryptor(params, key) *)
NewEncryptor(key) ==
  /\ Len(encs) < MaxEnc
  /\ LET id == Len(encs) + 1
     IN \E r \in {setKey(newEncryptor(id, hasP), key)} :
          /\ last' = Made("NewEncryptor", 0, key, r.out)
          /\ IF r.out = "ok"
               THEN /\ encs' = Append(encs, r.inst)
                    /\ heap' = newEncryptorBuffers(heap, id, hasP)
                    /\ smp' = newEncryptorSamplers(smp, id)
               ELSE UNCHANGED <<encs, heap, smp>>
  /\ UNCHANGED <<hasP, nilLevel, tgt, th, lwe, boot, test>>

(* enc.ShallowCopy() *)
ShallowCopy(e) ==
  /\ Len(encs) < MaxEnc
  /\ LET id == Len(encs) + 1
     IN /\ encs' = Append(encs, encryptorShallowCopy(encs[e], id, hasP))
        /\ heap' = newEncryptorBuffers(heap, id, hasP)
        /\ smp' = newEncryptorSamplers(smp, id)
        /\ last' = Made("ShallowCopy", e, encs[e].key, "ok")
  /\ UNCHANGED <<hasP, nilLevel, tgt, th, lwe, boot, test>>

(* enc.WithKey(key) *)
WithKey(e, key) ==
  /\ Len(encs) < MaxEnc
  /\ LET id == Len(encs) + 1
     IN \E r \in {encryptorWithKey(encs[e], key, id, hasP)} :
          /\ last' = Made("WithKey", e, key, r.out)
          /\ IF r.out = "ok"
               THEN /\ encs' = Append(encs, r.inst)
                    /\ heap' = newEncryptorBuffers(heap, id, hasP)
                    /\ smp' = newEncryptorSamplers(smp, id)
               ELSE UNCHANGED <<encs, heap, smp>>
  /\ UNCHANGED <<hasP, nilLevel, tgt, th, lwe, boot, test>>

(* enc.Encrypt(pt, ct) *)
Encrypt(e, ptc) ==
  /\ smp[encs[e].smp] < MaxDraws
  /\ \E r \in {Run(StartSt(EntryEncrypt(encs[e]), encs[e], ptc.ok, tgt, 0,
                           [heap EXCEPT ![Pt(0)] = ptc], smp, hasP, nilLevel))} :
        /\ heap' = r.h
        /\ smp' = r.smp
        /\ last' = Called("Encrypt", e, ptc, heap, r)
  /\ UNCHANGED <<hasP, nilLevel, tgt, encs, th, lwe, boot, test>>

(* enc.EncryptFromCRP(pt, crp, ct): ct is statically a *rlwe.Ciphertext *)
EncryptFromCRP(e, ptc) ==
  /\ tgt = "rlwe"
  /\ smp[encs[e].smp] < MaxDraws
  /\ \E r \in {Run(StartSt(EntryCRP(encs[e]), encs[e], ptc.ok, tgt, 0,
                           [heap EXCEPT ![Pt(0)] = ptc], smp, hasP, nilLevel))} :
        /\ heap' = r.h
        /\ smp' = r.smp
        /\ last' = Called("EncryptFromCRP", e, ptc, heap, r)
  /\ UNCHANGED <<hasP, nilLevel, tgt, encs, th, lwe, boot, test>>

Next ==
  \/ \E ptc \in PtChoices : Encrypt(1, ptc)
  \/ \E ptc \in PtChoices : EncryptFromCRP(1, ptc)

Spec == Init /\ [][Next]_vars

LifeNext ==
  \/ \E k \in Keys : NewEncryptor(k)
  \/ \E e \in 1..Len(encs) : ShallowCopy(e)
  \/ \E e \in 1..Len(encs), k \in Keys : WithKey(e, k)
  \/ \E e \in 1..Len(encs) : Encrypt(e, PtPoly(TRUE, MaxLevel))

LifeSpec == LifeInit /\ [][LifeNext]_vars

(* ------------------ two calls running concurrently -------------------- *)
(* enc := NewEncryptor(params, key); clone := enc.ShallowCopy(); then one  *)
(* goroutine runs enc.Encrypt(pt0, ct0) while another runs                 *)
(* clone.Encrypt(pt1, ct1), each on its own plaintext and ciphertext.  A   *)
(* step of either is one statement of the code.  th.t[i] is call i's       *)
(* frame (st without the shared heap and PRNG positions); th.h0 and th.s0  *)
(* are the heap and PRNG positions when both calls start.                  *)

Frame(st) == [f \in (DOMAIN st) \ {"h", "smp"} |-> st[f]]

OnHeap(fr, h, s) ==
  [f \in (DOMAIN fr) \cup {"h", "smp"} |->
     IF f = "h" THEN h ELSE IF f = "smp" THEN s ELSE fr[f]]

ConcPts == {PtPoly(f, MaxLevel) : f \in BOOLEAN}

ConcInit ==
  /\ hasP \in BOOLEAN
  /\ nilLevel = -1
  /\ tgt = "rlwe"
  /\ last = NoCall
  /\ \E key \in Keys, f0 \in BOOLEAN, f1 \in BOOLEAN, p0 \in ConcPts, p1 \in ConcPts :
       \E r \in {setKey(newEncryptor(1, hasP), key)} :
          /\ r.out = "ok"
          /\ encs = <<r.inst, encryptorShallowCopy(r.inst, 2, hasP)>>
          /\ heap = [newEncryptorBuffers(newEncryptorBuffers(Heap0(hasP), 1, hasP), 2, hasP)
                       EXCEPT ![Ct0(0)] = NewCtPoly(f0, MaxLevel),
                              ![Ct1(0)] = NewCtPoly(f0, MaxLevel),
                              ![Ct0(1)] = NewCtPoly(f1, MaxLevel),
                              ![Ct1(1)] = NewCtPoly(f1, MaxLevel),
                              ![Pt(0)] = p0, ![Pt(1)] = p1]
  /\ smp = [i \in 1..MaxEnc |-> 0]
  /\ th = [t |-> [i \in 1..2 |->
                    Frame(StartSt(EntryEncrypt(encs[i]), encs[i], TRUE, tgt, i - 1,
                                  heap, smp, hasP, nilLevel))],
           h0 |-> heap, s0 |-> smp]
  /\ lwe = NoLWE /\ boot = NoBoot /\ test = NoTest

(* call i executes its next statement *)
ConcStep(i) ==
  /\ Running(th.t[i])
  /\ \E r \in {Step(OnHeap(th.t[i], heap, smp))} :
        /\ heap' = r.h
        /\ smp' = r.smp
        /\ th' = [th EXCEPT !.t[i] = Frame(r)]
  /\ UNCHANGED <<hasP, nilLevel, tgt, encs, last, lwe, boot, test>>

ConcNext ==
  \/ ConcStep(1)
  \/ ConcStep(2)

ConcSpec == ConcInit /\ [][ConcNext]_vars

(* the two calls run one after the other from the same start *)
Sequential ==
  LET a == Run(OnHeap(Frame(StartSt(EntryEncrypt(encs[1]), encs[1], TRUE, tgt, 0,
                                    th.h0, th.s0, hasP, nilLevel)), th.h0, th.s0))
  IN Run(StartSt(EntryEncrypt(encs[2]), encs[2], TRUE, tgt, 1, a.h, a.smp,
                 hasP, nilLevel))

(* ============================ the LWE bridge =========================== *)
(* RLWEToLWE, DecryptLWE, LWEToRLWE, MergeRLWE and ExtractAndEvaluateLUT   *)
(* as the tests of lwe_test.go (src/unnamed/part_000) use them.  Their     *)
(* code is not in src/: they are modelled from the specification, over a   *)
(* small ring Z_q[X]/(X^N+1) in RNS form so that the arithmetic is exact.  *)

(* ring degree and highest level of the bridge's parameters *)
LweN == 2

LweMaxLevel == 1

(* the modulus chain, scaled down *)
Moduli == <<101, 103, 107>>

Qi(u) == Moduli[u + 1]

Idx == 0..(LweN - 1)

LweLevels == 0..LweMaxLevel

RECURSIVE SumTo(_, _)
SumTo(f, n) == IF n = 0 THEN 0 ELSE f[n - 1] + SumTo(f, n - 1)

(* a polynomial with small integer coefficients, in RNS form at level lvl *)
Lift(v, lvl) == [u \in 0..lvl |-> [k \in Idx |-> v[k] % Qi(u)]]

PolyAdd(a, b) == [u \in DOMAIN a |-> [k \in Idx |-> (a[u][k] + b[u][k]) % Qi(u)]]

PolyNeg(a) == [u \in DOMAIN a |-> [k \in Idx |-> (-a[u][k]) % Qi(u)]]

(* product in Z_q[X]/(X^N+1): X^N = -1 *)
NegacyclicMul(a, b, q) ==
  [k \in Idx |->
     SumTo([j \in Idx |-> IF j <= k THEN a[k - j] * b[j]
                          ELSE -(a[LweN + k - j] * b[j])], LweN) % q]

PolyMul(a, b) == [u \in DOMAIN a |-> NegacyclicMul(a[u], b[u], Qi(u))]

Ternary == [Idx -> {-1, 0, 1}]

(* masks with coefficients that are large against the key-switching noise *)
Masks ==
  {[k \in Idx |-> 40], [k \in Idx |-> 40 * (k % 2)], [k \in Idx |-> 40 * ((k + 1) % 2)]}

(* plaintexts of the tests: zero (testRLWEToLWE) and a value that grows   *)
(* with the coefficient index (testManyRLWEToSingleRLWE)                  *)
Messages == {[k \in Idx |-> 0], [k \in Idx |-> 30 + 10 * k]}

(* what skEncryptor.encryptRLWE computes, read in the coefficient domain: *)
(* body = -mask*secret + (noise + plaintext)                              *)
EncryptLWE(sk, mask, pm, lvl) ==
  [c0 |-> PolyAdd(PolyNeg(PolyMul(Lift(mask, lvl), Lift(sk, lvl))), Lift(pm, lvl)),
   c1 |-> Lift(mask, lvl)]

CtLevel(ct) == Cardinality(DOMAIN ct.c0) - 1

(* decryptor.Decrypt: body + mask*secret *)
Decrypt(ct, sk) == PolyAdd(ct.c0, PolyMul(ct.c1, Lift(sk, CtLevel(ct))))

(* the LWE sample of coefficient i: b is the body's coefficient i, a is   *)
(* the mask re-indexed, negated where i - j wraps around modulo N; and a  *)
(* variant that re-indexes cyclically, without the sign flip              *)
ExtractLWE_Cyclic(ct, i) ==
  [b |-> [u \in DOMAIN ct.c0 |-> ct.c0[u][i]],
   a |-> [u \in DOMAIN ct.c1 |->
            [j \in Idx |-> ct.c1[u][(i - j) % LweN]]]]

ExtractLWE(ct, i) ==
  [b |-> [u \in DOMAIN ct.c0 |-> ct.c0[u][i]],
   a |-> [u \in DOMAIN ct.c1 |->
            [j \in Idx |-> IF j <= i THEN ct.c1[u][i - j]
                           ELSE (-ct.c1[u][LweN + i - j]) % Qi(u)]]]

(* RLWEToLWE(ct, ringQ, slotIndex): one sample per selected index *)
RLWEToLWEMap(ct, slotIndex) == [i \in slotIndex |-> ExtractLWE(ct, i)]

Inner(a, sk, q) == SumTo([j \in Idx |-> a[j] * sk[j]], LweN) % q

(* DecryptLWE(sample, ringQ, skInvNTT).  The sign of the inner product is *)
(* the one testRLWEToLWE needs: the samples of an encryption of zero must *)
(* decrypt to its noise.                                                  *)
DecryptLWE(smpl, sk) ==
  [u \in DOMAIN smpl.b |-> (smpl.b[u] + Inner(smpl.a[u], sk, Qi(u))) % Qi(u)]

(* ---- gadget key and key switching (GenLUTKey, LWEToRLWE) ---- *)
(* digits per modulus in base 2^LogBase2 *)
LogBase2 == 1

KsDigits == 7

Digits == 0..(KsDigits - 1)

Base == 2 ^ LogBase2

Digit(x, d) == (x \div (Base ^ d)) % Base

(* handler.GenLUTKey(skT, skS): for every modulus u and digit d an RLWE   *)
(* encryption under skT of Base^d * skS on modulus u (zero on the other   *)
(* moduli), with noise err                                                *)
GenLUTKeyRows(skT, skS, lvl, err) ==
  [u \in 0..lvl |->
     [d \in Digits |->
        LET k1 == Lift([k \in Idx |-> 1 + u + d + k], lvl)
            g == [v \in 0..lvl |->
                    [k \in Idx |-> IF v = u THEN ((Base ^ d) * skS[k]) % Qi(v) ELSE 0]]
        IN [k0 |-> PolyAdd(PolyAdd(PolyNeg(PolyMul(k1, Lift(skT, lvl))), g),
                           Lift([k \in Idx |-> err], lvl)),
            k1 |-> k1]]]

(* digit d of the mask's residues modulo Qi(u) *)
MaskDigit(ct, u, d) == [k \in Idx |-> Digit(ct.c1[u][k], d)]

(* sum over the rows (u, d) of digit * key part, on modulus v *)
GadgetProduct(ct, key, part, v) ==
  [k \in Idx |->
     SumTo([u \in DOMAIN ct.c1 |->
              SumTo([d \in Digits |->
                       NegacyclicMul(MaskDigit(ct, u, d), key[u][d][part][v], Qi(v))[k]],
                    KsDigits)],
           CtLevel(ct) + 1) % Qi(v)]

(* the ciphertext switched from the key of the rows to their target key *)
KeySwitch(ct, key) ==
  [c0 |-> PolyAdd(ct.c0, [v \in DOMAIN ct.c0 |-> GadgetProduct(ct, key, "k0", v)]),
   c1 |-> [v \in DOMAIN ct.c1 |-> GadgetProduct(ct, key, "k1", v)]]

(* an LWE sample read as an RLWE ciphertext: body = b at coefficient 0,   *)
(* mask = the a-vector re-indexed back, so that coefficient 0 of          *)
(* mask*secret is <a, s>; and a variant that forgets the sign             *)
SampleAsRLWE_NoSign(smpl) ==
  [c0 |-> [u \in DOMAIN smpl.b |-> [k \in Idx |-> IF k = 0 THEN smpl.b[u] ELSE 0]],
   c1 |-> [u \in DOMAIN smpl.a |->
             [k \in Idx |-> IF k = 0 THEN smpl.a[u][0] ELSE smpl.a[u][LweN - k]]]]

SampleAsRLWE(smpl) ==
  [c0 |-> [u \in DOMAIN smpl.b |-> [k \in Idx |-> IF k = 0 THEN smpl.b[u] ELSE 0]],
   c1 |-> [u \in DOMAIN smpl.a |->
             [k \in Idx |-> IF k = 0 THEN smpl.a[u][0]
                            ELSE (-smpl.a[u][LweN - k]) % Qi(u)]]]

(* handler.LWEToRLWE(ctLWE): one RLWE ciphertext per sample *)
LWEToRLWEMap(samples, key) ==
  [i \in DOMAIN samples |-> KeySwitch(SampleAsRLWE(samples[i]), key)]

(* target secret keys of a handler: the source key itself (the tests) or *)
(* another one                                                            *)
TargetKeys(sk) == {sk, [k \in Idx |-> 1]}

KsErrs == {0, 1}

EncIdle ==
  /\ hasP = FALSE /\ nilLevel = -1 /\ tgt = "rlwe"
  /\ encs = <<>> /\ heap = Heap0(FALSE)
  /\ smp = [i \in 1..MaxEnc |-> 0]
  /\ last = NoCall /\ th = <<>>

(* the caller's slotIndex: every coefficient (testRLWEToLWE), some of them *)
(* (testManyRLWEToSingleRLWE), none                                       *)
SlotIndexes == {{}, {0}, Idx \ {0}, Idx}

(* kgen.GenSecretKey(); encryptor.Encrypt(pt, ct); the caller's slotIndex *)
LweInit ==
  /\ EncIdle /\ boot = NoBoot /\ test = NoTest
  /\ \E sk \in Ternary, mask \in Masks, pm \in Messages, lvl \in LweLevels,
        slotIndex \in SlotIndexes :
       lwe = [pc |-> "encrypted", sk |-> sk, ct |-> EncryptLWE(sk, mask, pm, lvl),
              slotIndex |-> slotIndex, LWE |-> <<>>,
              skT |-> sk, err |-> 0, key |-> <<>>, ctRLWE |-> <<>>]

(* LWE := RLWEToLWE(ct, params.RingQ(), slotIndex) *)
RLWEToLWE ==
  /\ lwe.pc = "encrypted"
  /\ lwe' = [lwe EXCEPT !.pc = "extracted",
                        !.LWE = RLWEToLWEMap(lwe.ct, lwe.slotIndex)]
  /\ UNCHANGED <<hasP, nilLevel, tgt, encs, heap, smp, last, th, boot, test>>

(* handler := NewHandler(params, params, nil); handler.GenLUTKey(skT, sk) *)
GenLUTKey ==
  /\ lwe.pc = "extracted"
  /\ \E skT \in TargetKeys(lwe.sk), err \in KsErrs :
       lwe' = [lwe EXCEPT !.pc = "keyed", !.skT = skT, !.err = err,
                          !.key = GenLUTKeyRows(skT, lwe.sk, CtLevel(lwe.ct), err)]
  /\ UNCHANGED <<hasP, nilLevel, tgt, encs, heap, smp, last, th, boot, test>>

(* ctRLWE := handler.LWEToRLWE(ctLWE) *)
LWEToRLWE ==
  /\ lwe.pc = "keyed"
  /\ lwe' = [lwe EXCEPT !.pc = "packed",
                        !.ctRLWE = LWEToRLWEMap(lwe.LWE, lwe.key)]
  /\ UNCHANGED <<hasP, nilLevel, tgt, encs, heap, smp, last, th, boot, test>>

LweNext ==
  \/ RLWEToLWE
  \/ GenLUTKey
  \/ LWEToRLWE

LweSpec == LweInit /\ [][LweNext]_vars

(* ------------------------------ MergeRLWE ------------------------------ *)
(* handler.MergeRLWE(ctRLWE), from the specification: a rotate-and-add    *)
(* tree.  A ciphertext is what it decrypts to, slot by slot: for every    *)
(* slot, how many times (with sign) the value isolated in ciphertexts[l]  *)
(* is in it.  The noise left in the other slots is not tracked.           *)

(* log2 of the ring degree of the handler's parameters *)
MergeLogN == 2

MergeN == 2 ^ MergeLogN

Slots == 0..(MergeN - 1)

(* kgen.GenRotationKeysForRotations: i := 1; i < N; i <<= 1 *)
Rotations == {2 ^ t : t \in 0..(MergeLogN - 1)}

EmptySlots == [sl \in Slots |-> [l \in Slots |-> 0]]

(* the output of LWEToRLWE for slot l: its value is in coefficient 0 *)
SingleSlot(l) == [EmptySlots EXCEPT ![0][l] = 1]

(* multiplication by X^k in Z[X]/(X^N+1) *)
Rotate(ct, k) ==
  [sl \in Slots |-> [l \in Slots |-> IF sl >= k THEN ct[sl - k][l]
                                     ELSE -ct[MergeN + sl - k][l]]]

AddCt(a, b) == [sl \in Slots |-> [l \in Slots |-> a[sl][l] + b[sl][l]]]

(* one stage: the partial sums 2k and 2k+1 are combined, the second one   *)
(* rotated by the stage's step; and a variant that rotates by one slot at *)
(* every stage                                                            *)
MergeStageOf_StepOne(live, step) ==
  [k \in 1..(Len(live) \div 2) |-> AddCt(live[2 * k - 1], Rotate(live[2 * k], 1))]

MergeStageOf(live, step) ==
  [k \in 1..(Len(live) \div 2) |-> AddCt(live[2 * k - 1], Rotate(live[2 * k], step))]

(* the ciphertexts handed to MergeRLWE (a map from slot to ciphertext:    *)
(* slots without one contribute nothing) and the rotation keys of the     *)
(* handler                                                                *)
MergeInit ==
  /\ EncIdle /\ boot = NoBoot /\ test = NoTest
  /\ \E slotIndex \in SUBSET Slots, rtks \in SUBSET Rotations :
       lwe = [pc |-> "merging", slotIndex |-> slotIndex, rtks |-> rtks, stage |-> 0,
              live |-> [k \in 1..MergeN |->
                          IF (k - 1) \in slotIndex THEN SingleSlot(k - 1) ELSE EmptySlots]]

(* one stage of the tree *)
MergeStage ==
  /\ lwe.pc = "merging" /\ Len(lwe.live) > 1
  /\ 2 ^ lwe.stage \in lwe.rtks
  /\ lwe' = [lwe EXCEPT !.live = MergeStageOf(lwe.live, 2 ^ lwe.stage),
                        !.stage = lwe.stage + 1]
  /\ UNCHANGED <<hasP, nilLevel, tgt, encs, heap, smp, last, th, boot, test>>

(* the rotation key of the stage is missing *)
MergeNoKey ==
  /\ lwe.pc = "merging" /\ Len(lwe.live) > 1
  /\ 2 ^ lwe.stage \notin lwe.rtks
  /\ lwe' = [lwe EXCEPT !.pc = "nokey"]
  /\ UNCHANGED <<hasP, nilLevel, tgt, encs, heap, smp, last, th, boot, test>>

(* return of the one ciphertext left *)
MergeReturn ==
  /\ lwe.pc = "merging" /\ Len(lwe.live) = 1
  /\ lwe' = [lwe EXCEPT !.pc = "merged"]
  /\ UNCHANGED <<hasP, nilLevel, tgt, encs, heap, smp, last, th, boot, test>>

MergeNext ==
  \/ MergeStage
  \/ MergeNoKey
  \/ MergeReturn

MergeSpec == MergeInit /\ [][MergeNext]_vars

(* ------------------------ ExtractAndEvaluateLUT ------------------------ *)
(* handler.ExtractAndEvaluateLUT(ctLWE, lutPolyMap, LUTKEY), from the     *)
(* specification.  lutPolyMap is a Go map: the range over it visits the   *)
(* slots in an order the runtime chooses, and a map has no insertion      *)
(* order.  A table is the sequence of the function's values at the        *)
(* points of its domain; the message of a slot is the index of a point.   *)

(* the number of slots of the ciphertext *)
LutSlots == 3

(* the number of points of a table *)
LutPoints == 3

LutIdx == 0..(LutSlots - 1)

LutMsgs == 0..(LutPoints - 1)

(* InitLUT(function, ...): the function at equally spaced points *)
InitLUT(f) == [k \in 1..LutPoints |-> f[k - 1]]

LutFunctions ==
  {[m \in LutMsgs |-> IF 2 * m < LutPoints - 1 THEN -1 ELSE IF 2 * m = LutPoints - 1 THEN 0 ELSE 1],
   [m \in LutMsgs |-> m + 10]}

LutTables == {InitLUT(f) : f \in LutFunctions}

(* the table polynomial rotated by the message: entry m comes first *)
RotateTable(table, m) ==
  [k \in 1..Len(table) |-> table[((k - 1 + m) % Len(table)) + 1]]

(* the blind rotation of one slot: the accumulator is set to the slot's   *)
(* table and rotated by the sample's message; and a variant that goes on  *)
(* from what the previous slot left in the accumulator                    *)
BlindRotate_KeepAcc(acc, table, m) ==
  IF acc = <<>> THEN RotateTable(table, m) ELSE RotateTable(acc, m)

BlindRotate(acc, table, m) ==
  RotateTable(table, m)

(* the constant coefficient of the result *)
LutOutput(acc) == acc[1]

LutInit ==
  /\ EncIdle /\ boot = NoBoot /\ test = NoTest
  /\ \E msgs \in [LutIdx -> LutMsgs], dom \in SUBSET LutIdx :
       \E lutPolyMap \in [dom -> LutTables] :
         lwe = [pc |-> "evaluating", msgs |-> msgs, lutPolyMap |-> lutPolyMap,
                acc |-> <<>>, res |-> <<>>, order |-> <<>>]

(* one iteration of the range: any slot of the map not yet visited *)
EvaluateSlot ==
  /\ lwe.pc = "evaluating"
  /\ \E i \in (DOMAIN lwe.lutPolyMap) \ (DOMAIN lwe.res) :
       LET acc == BlindRotate(lwe.acc, lwe.lutPolyMap[i], lwe.msgs[i])
       IN lwe' = [lwe EXCEPT !.acc = acc,
                             !.res = [j \in (DOMAIN lwe.res) \cup {i} |->
                                        IF j = i THEN LutOutput(acc) ELSE lwe.res[j]],
                             !.order = Append(lwe.order, i)]
  /\ UNCHANGED <<hasP, nilLevel, tgt, encs, heap, smp, last, th, boot, test>>

(* the range is over: the results are returned *)
EvaluateReturn ==
  /\ lwe.pc = "evaluating"
  /\ DOMAIN lwe.res = DOMAIN lwe.lutPolyMap
  /\ lwe' = [lwe EXCEPT !.pc = "evaluated"]
  /\ UNCHANGED <<hasP, nilLevel, tgt, encs, heap, smp, last, th, boot, test>>

LutNext ==
  \/ EvaluateSlot
  \/ EvaluateReturn

LutSpec == LutInit /\ [][LutNext]_vars

(* ===================== ckks: BootstrappingParameters ==================== *)
(* A slice is a reference to an array of the memory mem (0 is the nil     *)
(* slice); an array is the sequence of its elements, numbers or, for the  *)
(* outer array of a [][]float64, references to the inner arrays.          *)

(* the longest list of an original *)
MaxList == 2

ListLens == 0..MaxList

(* make([]T, n); copy(dst, src): min(len(dst), len(src)) elements *)
MakeAndCopy(n, src) == [k \in 1..n |-> IF k <= Len(src) THEN src[k] ELSE 0]

Elems(mem, ref) == IF ref = 0 THEN <<>> ELSE mem[ref]

(* the distinct elements of the list f of an original *)
ListOf(f, n) == [k \in 1..n |-> 10 * f + k]

(* len(ScalingFactor[k]) of an original, as in the default sets: 2, 1, .. *)
InnerLen(k) == 1 + (k % 2)

(* the original: its lists in memory, and the struct *)
MemOf(nRes, nKS, nStC, nStCSF, nSE, nCtS, nCtSSF) ==
  <<ListOf(1, nRes), ListOf(2, nKS), ListOf(3, nStC), ListOf(4, nSE), ListOf(5, nCtS)>>
    \o [k \in 1..nStCSF |-> ListOf(6 + k, InnerLen(k))]
    \o <<[k \in 1..nStCSF |-> 5 + k]>>
    \o [k \in 1..nCtSSF |-> ListOf(6 + MaxList + k, InnerLen(k))]
    \o <<[k \in 1..nCtSSF |-> 6 + nStCSF + k]>>

ParamsOf(nKS, nStCSF, nCtSSF) ==
  [ResidualModuli |-> 1,
   KeySwitchModuli |-> IF nKS = 0 THEN 0 ELSE 2,
   SlotsToCoeffsModuli |-> [Qi |-> 3, ScalingFactor |-> 6 + nStCSF],
   SineEvalModuli |-> [Qi |-> 4, ScalingFactor |-> 55],
   CoeffsToSlotsModuli |-> [Qi |-> 5, ScalingFactor |-> 7 + nStCSF + nCtSSF],
   LogN |-> 16, LogSlots |-> 15, Scale |-> 45, Sigma |-> 3, H |-> 192, SinType |-> 1,
   MessageRatio |-> 1024, SinRange |-> 25, SinDeg |-> 63, SinRescal |-> 2,
   ArcSineDeg |-> 7, MaxN1N2Ratio |-> 16]

NoParams == [pc |-> "none"]

(* b.CtSDepth(true), b.StCDepth(true) *)
CtSDepth(mem, b) == Len(Elems(mem, b.CoeffsToSlotsModuli.ScalingFactor))

StCDepth(mem, b) == Len(Elems(mem, b.SlotsToCoeffsModuli.ScalingFactor))

(* the inner lists of a scaling factor, each made and copied *)
CopyInner(mem, outer) == [k \in 1..Len(outer) |-> MakeAndCopy(Len(mem[outer[k]]), mem[outer[k]])]

(* the copied outer list: the copied inner lists are the arrays base+1..  *)
InnerRefs(outer, base) == [k \in 1..Len(outer) |-> base + k]

(* the slice stored in paramsCopy.ResidualModuli: the one made for it;    *)
(* and a variant that stores the original's slice                         *)
CopiedResidual_Alias(b, made) == b.ResidualModuli

CopiedResidual(b, made) == made

(* b.Copy(): the memory after it and paramsCopy *)
BootCopy(mem, b) ==
  LET res   == MakeAndCopy(Len(Elems(mem, b.ResidualModuli)), Elems(mem, b.ResidualModuli))
      ctsQi == MakeAndCopy(CtSDepth(mem, b), Elems(mem, b.CoeffsToSlotsModuli.Qi))
      ctsO  == Elems(mem, b.CoeffsToSlotsModuli.ScalingFactor)
      ctsIn == CopyInner(mem, ctsO)
      seQi  == MakeAndCopy(CtSDepth(mem, b), Elems(mem, b.SineEvalModuli.Qi))
      stcQi == MakeAndCopy(StCDepth(mem, b), Elems(mem, b.SlotsToCoeffsModuli.Qi))
      stcO  == Elems(mem, b.SlotsToCoeffsModuli.ScalingFactor)
      stcIn == CopyInner(mem, stcO)
      n0    == Len(mem)
      m1    == mem \o <<res, ctsQi>> \o ctsIn
      m2    == m1 \o <<InnerRefs(ctsO, n0 + 2)>> \o <<seQi, stcQi>> \o stcIn
      m3    == m2 \o <<InnerRefs(stcO, Len(m2) - Len(stcIn))>>
  IN [mem |-> m3,
      paramsCopy |->
        [ResidualModuli |-> CopiedResidual(b, n0 + 1),
         KeySwitchModuli |-> 0,
         SlotsToCoeffsModuli |-> [Qi |-> Len(m1) + 3, ScalingFactor |-> Len(m3)],
         SineEvalModuli |-> [Qi |-> Len(m1) + 2, ScalingFactor |-> b.SineEvalModuli.ScalingFactor],
         CoeffsToSlotsModuli |-> [Qi |-> n0 + 2, ScalingFactor |-> Len(m1) + 1],
         LogN |-> 0, LogSlots |-> 0, Scale |-> 0, Sigma |-> 0,
         H |-> b.H, SinType |-> b.SinType, MessageRatio |-> b.MessageRatio,
         SinRange |-> b.SinRange, SinDeg |-> b.SinDeg, SinRescal |-> b.SinRescal,
         ArcSineDeg |-> b.ArcSineDeg, MaxN1N2Ratio |-> b.MaxN1N2Ratio]]

(* the lists of a scaling factor: the outer array and its inner arrays *)
OuterRefs(p) ==
  {p.SlotsToCoeffsModuli.ScalingFactor, p.CoeffsToSlotsModuli.ScalingFactor} \ {0}

(* the arrays a BootstrappingParameters reaches *)
ArraysOf(mem, p) ==
  ({p.ResidualModuli, p.KeySwitchModuli, p.SlotsToCoeffsModuli.Qi, p.SineEvalModuli.Qi,
    p.CoeffsToSlotsModuli.Qi} \ {0})
    \cup OuterRefs(p)
    \cup UNION {{mem[o][k] : k \in 1..Len(mem[o])} \ {0} : o \in OuterRefs(p)}

(* what a BootstrappingParameters holds: every list by its elements *)
Deep(mem, outer) == [k \in 1..Len(outer) |-> Elems(mem, outer[k])]

ValueOf(mem, p) ==
  [p EXCEPT !.ResidualModuli = Elems(mem, @),
            !.KeySwitchModuli = Elems(mem, @),
            !.SlotsToCoeffsModuli.Qi = Elems(mem, @),
            !.SlotsToCoeffsModuli.ScalingFactor = Deep(mem, Elems(mem, @)),
            !.SineEvalModuli.Qi = Elems(mem, @),
            !.CoeffsToSlotsModuli.Qi = Elems(mem, @),
            !.CoeffsToSlotsModuli.ScalingFactor = Deep(mem, Elems(mem, @))]

CopyInit ==
  /\ EncIdle /\ lwe = NoLWE /\ test = NoTest
  /\ \E nRes \in ListLens, nKS \in {0, 1}, nStC \in ListLens, nStCSF \in ListLens,
        nSE \in ListLens, nCtS \in ListLens, nCtSSF \in ListLens :
       boot = [pc |-> "made",
               mem |-> MemOf(nRes, nKS, nStC, nStCSF, nSE, nCtS, nCtSSF),
               b |-> ParamsOf(nKS, nStCSF, nCtSSF),
               paramsCopy |-> NoParams, wrote |-> "none"]

(* paramsCopy := b.Copy() *)
Copy ==
  /\ boot.pc = "made"
  /\ LET r == BootCopy(boot.mem, boot.b)
     IN boot' = [boot EXCEPT !.pc = "copied", !.mem = r.mem, !.paramsCopy = r.paramsCopy]
  /\ UNCHANGED <<hasP, nilLevel, tgt, encs, heap, smp, last, th, lwe, test>>

(* p.list[k] = x, through the original or through the copy: a number is   *)
(* replaced by another number, an inner list by the nil slice             *)
WriteElem ==
  /\ boot.pc = "copied"
  /\ \E side \in {"b", "paramsCopy"} :
       LET p == IF side = "b" THEN boot.b ELSE boot.paramsCopy
       IN \E a \in ArraysOf(boot.mem, p) : \E k \in 1..Len(boot.mem[a]) :
            boot' = [boot EXCEPT !.pc = "written", !.wrote = side,
                                 !.mem[a][k] = IF a \in OuterRefs(p) THEN 0 ELSE 999]
  /\ UNCHANGED <<hasP, nilLevel, tgt, encs, heap, smp, last, th, lwe, test>>

CopyNext ==
  \/ Copy
  \/ WriteElem

CopySpec == CopyInit /\ [][CopyNext]_vars

(* ============================ lwe: TestLWE ============================= *)
(* TestLWE of the lwe package's test file.  short is testing.Short(),     *)
(* flag what -params holds: nothing, a parameter literal, or text that is *)
(* not one (json.Unmarshal's error is dropped and the zero literal used). *)

TestParams == <<"TestPN12QP109", "TestPN13QP218">>

TestSets == <<"testLUT", "testRLWEToLWE", "testLWEToRLWE", "testManyRLWEToSingleRLWE">>

Flags == {"", "literal", "garbage"}

(* s[1:] *)
SliceFrom1(s) == SubSeq(s, 2, Len(s))

(* what a test set can do: pass, mark the test failed (t.Error, t.Fatal   *)
(* and assert inside its t.Run), or panic                                 *)
TestOutcomes == {"pass", "fail", "panic"}

TestInit ==
  /\ EncIdle /\ lwe = NoLWE /\ boot = NoBoot
  /\ \E short \in BOOLEAN, flag \in Flags :
       test = [pc |-> "L30", short |-> short, flag |-> flag, defaultParams |-> <<>>,
               rng |-> <<>>, k |-> 0, ts |-> 0, log |-> <<>>]

(* lines 30-39, and the range expression of line 41 *)
SelectParams ==
  /\ test.pc = "L30"
  /\ LET d0 == TestParams
         d1 == IF test.short THEN SubSeq(TestParams, 1, 1) ELSE d0
         d2 == IF test.flag # "" THEN <<IF test.flag = "literal" THEN "jsonParams" ELSE "zero">>
               ELSE d1
     IN test' = [test EXCEPT !.pc = "L41", !.defaultParams = d2,
                             !.rng = SliceFrom1(d2), !.k = 0]
  /\ UNCHANGED <<hasP, nilLevel, tgt, encs, heap, smp, last, th, lwe, boot>>

(* line 41: the next element of the range, if any; lines 43-46: its       *)
(* parameters, a panic if the literal is not valid                        *)
NextParam ==
  /\ test.pc = "L41"
  /\ IF test.k >= Len(test.rng)
       THEN test' = [test EXCEPT !.pc = "done"]
       ELSE IF test.rng[test.k + 1] = "zero"
         THEN test' = [test EXCEPT !.pc = "panic", !.k = @ + 1]
         ELSE test' = [test EXCEPT !.pc = "L54", !.k = @ + 1, !.ts = 1]
  /\ UNCHANGED <<hasP, nilLevel, tgt, encs, heap, smp, last, th, lwe, boot>>

(* line 54: testSet(params, t) *)
RunTestSet ==
  /\ test.pc = "L54"
  /\ \E o \in TestOutcomes :
       test' = [test EXCEPT !.pc = IF o = "panic" THEN "panic" ELSE "L55",
                            !.log = Append(@, <<test.rng[test.k], TestSets[test.ts], o>>)]
  /\ UNCHANGED <<hasP, nilLevel, tgt, encs, heap, smp, last, th, lwe, boot>>

(* line 55: runtime.GC(), then the next test set or the next parameters *)
RuntimeGC ==
  /\ test.pc = "L55"
  /\ test' = IF test.ts < Len(TestSets)
               THEN [test EXCEPT !.pc = "L54", !.ts = @ + 1]
               ELSE [test EXCEPT !.pc = "L41"]
  /\ UNCHANGED <<hasP, nilLevel, tgt, encs, heap, smp, last, th, lwe, boot>>

TestNext ==
  \/ SelectParams
  \/ NextParam
  \/ RunTestSet
  \/ RuntimeGC

TestSpec == TestInit /\ [][TestNext]_vars

(* ------------- encryptZeroSymetricQP called on its own ----------------- *)
(* enc.encryptZeroSymetricQP(levelQ, levelP, enc.sk.Value, sample,         *)
(* montgomery, ntt, ct) with ct entry (0, 0) of the first gadget matrix,    *)
(* holding what an earlier use left in it: nothing, or NTT-domain data.     *)
(* With sample = false ct[1] is the mask the caller supplies.               *)

OldBody == One("ntt", 0, Atom("old", 0, 0))

OldMask == One("ntt", 0, Atom("mask", 0, 0))

(* the call, from its first statement to its return *)
RECURSIVE RunZs(_)
RunZs(st) == IF Running(st) /\ st.pc # "ret" THEN RunZs(Step(st)) ELSE st

ZsInit ==
  /\ hasP \in BOOLEAN
  /\ nilLevel = -1
  /\ tgt = "rgsw"
  /\ \E r \in {setKey(newEncryptor(1, hasP), 2)}, body \in {ZeroVal, OldBody},
        mask \in {ZeroVal, OldMask} :
       /\ r.out = "ok"
       /\ encs = <<r.inst>>
       /\ heap = [l \in Locs |->
                    LET h == newEncryptorBuffers(Heap0(hasP), 1, hasP)
                    IN IF ~h[l].ok THEN h[l]
                       ELSE IF l \in {GQ(0, 0, 0, 0), GP(0, 0, 0, 0)} THEN [h[l] EXCEPT !.v = body]
                       ELSE IF l \in {GQ(0, 0, 0, 1), GP(0, 0, 0, 1)} THEN [h[l] EXCEPT !.v = mask]
                       ELSE h[l]]
  /\ smp = [i \in 1..MaxEnc |-> 0]
  /\ last = NoCall
  /\ th = <<>>
  /\ lwe = NoLWE /\ boot = NoBoot /\ test = NoTest

encryptZeroSymetricQP(sample, montgomery, ntt) ==
  /\ smp[encs[1].smp] < MaxDraws
  /\ \E r \in {RunZs([StartSt("L458", encs[1], FALSE, tgt, 0, heap, smp, hasP, nilLevel)
                        EXCEPT !.ret = "ret", !.zsample = sample,
                               !.zmont = montgomery, !.zntt = ntt])} :
        /\ heap' = r.h
        /\ smp' = r.smp
        /\ last' = [op |-> "encryptZeroSymetricQP", e |-> 1,
                    sample |-> sample, montgomery |-> montgomery, ntt |-> ntt,
                    in0 |-> heap[GQ(0, 0, 0, 0)].v, in1 |-> heap[GQ(0, 0, 0, 1)].v,
                    out |-> IF r.pc = "ret" THEN "ok" ELSE r.out, dr |-> r.dr]
  /\ UNCHANGED <<hasP, nilLevel, tgt, encs, th, lwe, boot, test>>

ZsNext == \E sample \in BOOLEAN, montgomery \in BOOLEAN, ntt \in BOOLEAN :
            encryptZeroSymetricQP(sample, montgomery, ntt)

ZsSpec == ZsInit /\ [][ZsNext]_vars

(* ===================== what a call leaves behind ======================= *)

ct0 == heap[Ct0(0)]

ct1 == heap[Ct1(0)]

EncCall == last.op \in {"Encrypt", "EncryptFromCRP"}

Recv == encs[last.e]

Dom(isNTT) == IF isNTT THEN "ntt" ELSE "coef"

Draws(kind) == {a \in last.dr : a.k = kind}

AtomsOf(v) == UNION {t.a : t \in v.terms}

PtTerms == IF last.pt.ok THEN {Term({Atom("pt", 0, 0)}, FALSE, FALSE)} ELSE {}

(* (mask, body) is an RLWE encryption under the secret key of the bound   *)
(* key, in domain d: mask = a, body = -a*s + e (+ pt) with e a Gaussian   *)
(* drawn by this call.                                                    *)
SkEncryption(d, a) ==
  /\ ct1.v = One(d, 0, a)
  /\ \E g \in Draws("gauss") :
       ct0.v = Value(d, 0, {Term({a, Atom("sk", Recv.key, 0)}, TRUE, FALSE),
                            Term({g}, FALSE, FALSE)} \cup PtTerms)

(* (ct0, ct1) = (u*pk0 + e0 (+ pt), u*pk1 + e1), divided by P when P is   *)
(* configured, u ternary and e0 # e1 Gaussian, all drawn by this call.    *)
PkEncryption(d) ==
  \E u \in Draws("tern"), g0 \in Draws("gauss"), g1 \in Draws("gauss") :
     /\ g0 # g1
     /\ ct0.v = Value(d, 0, {Term({u, Atom("pk0", Recv.key, 0)}, FALSE, hasP),
                             Term({g0}, FALSE, hasP)} \cup PtTerms)
     /\ ct1.v = Value(d, 0, {Term({u, Atom("pk1", Recv.key, 0)}, FALSE, hasP),
                             Term({g1}, FALSE, hasP)})

Encryption(d) ==
  IF Recv.variant = "sk"
    THEN \E a \in Draws("unif") : SkEncryption(d, a)
    ELSE PkEncryption(d)

(* ============================== claims ================================= *)

(* C1: Encrypt with a nil plaintext and an RLWE ciphertext returns        *)
(* normally and leaves an encryption of zero in the ciphertext, for the   *)
(* secret-key variant, the public-key variant with and without P, and     *)
(* both values of the ciphertext's domain flag.                           *)
C1_NilPlaintextEncryptsZero ==
  (last.op = "Encrypt" /\ tgt = "rlwe" /\ ~last.pt.ok)
    => (last.out = "ok" /\ Encryption(Dom(last.inNTT)))

(* C2: after Encrypt into an RLWE ciphertext, for every key variant,      *)
(* plaintext (NTT, coefficient, omitted) and input flag, both components  *)
(* hold data in the domain the flag named on input and both flags equal   *)
(* that flag; the two flags agree in every state.                         *)
C2_DomainMatchesFlag ==
  /\ ct0.IsNTT = ct1.IsNTT
  /\ (last.op = "Encrypt" /\ tgt = "rlwe" /\ last.out = "ok")
       => /\ ct0.IsNTT = last.inNTT
          /\ ct0.v.dom = Dom(last.inNTT)
          /\ ct1.v.dom = Dom(last.inNTT)

(* C3: an RLWE ciphertext written by Encrypt carries the Gaussian noise   *)
(* the call drew: it is a well-formed encryption (secret key: body =      *)
(* -mask*secret + noise (+ plaintext); public key: each component its own *)
(* noise term), and no Gaussian draw of the call is missing from it.      *)
C3_NoiseIsAdded ==
  (last.op = "Encrypt" /\ tgt = "rlwe" /\ last.out = "ok")
    => /\ Draws("gauss") \subseteq (AtomsOf(ct0.v) \cup AtomsOf(ct1.v))
       /\ Encryption(ct0.v.dom)

(* C4: after Encrypt or EncryptFromCRP on an RLWE ciphertext both         *)
(* components are at the same level, which is never above the level on    *)
(* input and, when the call returns, is min(plaintext level, input level).*)
C4_LevelIsMin ==
  (EncCall /\ tgt = "rlwe")
    => /\ ct0.lvl = ct1.lvl
       /\ ct0.lvl <= last.inLvl
       /\ (last.out = "ok" /\ last.pt.ok) => ct0.lvl = MinInt(last.pt.lvl, last.inLvl)

C4_Witness ==
  /\ EncCall /\ tgt = "rlwe" /\ last.out = "ok" /\ last.pt.ok
  /\ last.pt.lvl < last.inLvl /\ ct0.lvl = last.pt.lvl /\ ct1.lvl = last.pt.lvl

(* C5: a public-key Encryptor fails on every target that is not an RLWE   *)
(* ciphertext and on every EncryptFromCRP, and then writes nothing and    *)
(* draws nothing; a secret-key Encryptor does not reject RLWE and RGSW    *)
(* targets and rejects every other kind, writing nothing.                 *)
Untouched == heap' = [heap EXCEPT ![Pt(0)] = last'.pt] /\ smp' = smp

C5_Step ==
  /\ (last'.op = "Encrypt" /\ encs[last'.e].variant = "pk" /\ tgt # "rlwe")
       => (last'.out = "unsupported" /\ Untouched)
  /\ (last'.op = "EncryptFromCRP" /\ encs[last'.e].variant = "pk")
       => (last'.out = "crp-pk" /\ Untouched)
  /\ (last'.op = "Encrypt" /\ encs[last'.e].variant = "sk")
       => IF tgt \in {"rlwe", "rgsw"} THEN last'.out # "unsupported"
          ELSE (last'.out = "unsupported" /\ Untouched)

C5_UnsupportedFails == [][C5_Step]_vars

C5_Witness ==
  last.op = "Encrypt" /\ Recv.variant = "pk" /\ tgt = "rgsw" /\ last.out = "unsupported"

(* C7: EncryptFromCRP under a secret key draws no uniform mask: the mask  *)
(* component is the CRP in the ciphertext's domain and the body is        *)
(* -CRP*secret + noise (+ plaintext).                                     *)
C7_MaskIsCRP ==
  (last.op = "EncryptFromCRP" /\ Recv.variant = "sk" /\ last.out = "ok")
    => /\ Draws("unif") = {}
       /\ SkEncryption(Dom(last.inNTT), Atom("crp", 0, 0))

(* C10: Encrypt and EncryptFromCRP write only the ciphertext passed in    *)
(* and the receiver's own scratch buffers: the plaintext, the keys and    *)
(* the CRP are as they were.                                              *)
CtLocs == {Ct0(0), Ct1(0)} \cup {Loc(n, i) : n \in {"rgsw.Q", "rgsw.P"}, i \in GIdxs}

C10_OnlyCiphertextWritten ==
  EncCall
    => /\ heap[Pt(0)] = last.pt
       /\ heap[Crp] = CrpPoly
       /\ \A l \in KeyLocs : heap[l] = KeyPoly(l, hasP)
       /\ last.wr \subseteq (CtLocs \cup BufLocs(Recv.buf))

C10_Witness ==
  /\ last.op = "EncryptFromCRP" /\ Recv.variant = "sk" /\ last.out = "ok" /\ last.pt.ok
  /\ Crp \in last.rd /\ Ct1(0) \in last.wr /\ Loc("buffQ0", Recv.buf) \in last.wr

(* C6: NewEncryptor and WithKey fail, returning no instance, when the     *)
(* key is neither a public nor a secret key or its ring degree (for a     *)
(* public key: of either component) differs from the parameters'; else    *)
(* they return the variant that matches the key's type, bound to the key. *)
KeyFits(key) ==
  LET k == KeyTable[key]
  IN \/ k.kind = "pk" /\ k.d0 = ParamsN /\ k.d1 = ParamsN
     \/ k.kind = "sk" /\ k.d0 = ParamsN

Newest == encs[Len(encs)]

C6_Step ==
  last'.op \in {"NewEncryptor", "WithKey"}
    => IF KeyFits(last'.key)
         THEN /\ last'.out = "ok"
              /\ Len(encs') = Len(encs) + 1
              /\ Newest'.variant = KeyTable[last'.key].kind
              /\ Newest'.key = last'.key
         ELSE /\ last'.out # "ok"
              /\ encs' = encs

C6_SetKeyValidates == [][C6_Step]_vars

C6_Witness ==
  /\ last.op \in {"NewEncryptor", "WithKey"} /\ last.out # "ok"
  /\ KeyTable[last.key].kind = "pk"
  /\ KeyTable[last.key].d0 = ParamsN /\ KeyTable[last.key].d1 # ParamsN

(* C8: the clone shares only the parameters and the key with the          *)
(* original; no scratch buffer, sampler or basis extender is touched by   *)
(* both calls, and when both have ended the ciphertexts, the buffers and  *)
(* the PRNG positions are what running the calls one after the other      *)
(* gives.                                                                 *)
Scratch(fr) == {l \in fr.rd \cup fr.wr : l[1] \in BufNames}

C8_ClonesDoNotInterfere ==
  /\ encs[1].base = encs[2].base /\ encs[1].key = encs[2].key
  /\ encs[1].variant = encs[2].variant
  /\ Scratch(th.t[1]) \cap Scratch(th.t[2]) = {}
  /\ th.t[1].su \cap th.t[2].su = {}
  /\ th.t[1].bx \cap th.t[2].bx = {}
  /\ (~Running(th.t[1]) /\ ~Running(th.t[2]))
       => /\ heap = Sequential.h
          /\ smp = Sequential.smp
          /\ th.t[1].out = "ok" /\ th.t[2].out = "ok"

C8_Witness ==
  /\ Running(th.t[1]) /\ Running(th.t[2])
  /\ Scratch(th.t[1]) # {} /\ Scratch(th.t[2]) # {}
  /\ th.t[1].su # {} /\ th.t[2].su # {}

(* C9: WithKey returns a new instance bound to the new key, of the        *)
(* variant the new key's type names whatever the receiver's variant, with *)
(* buffers and samplers of its own; the receiver, its buffers and its     *)
(* sampler are as they were, whether WithKey succeeds or fails.           *)
C9_Step ==
  last'.op = "WithKey"
    => LET recv == encs[last'.e]
       IN /\ \A i \in 1..Len(encs) : encs'[i] = encs[i]
          /\ \A l \in BufLocs(recv.buf) : heap'[l] = heap[l]
          /\ smp'[recv.smp] = smp[recv.smp]
          /\ IF last'.out = "ok"
               THEN /\ Len(encs') = Len(encs) + 1
                    /\ Newest'.key = last'.key
                    /\ Newest'.variant = KeyTable[last'.key].kind
                    /\ Newest'.base = recv.base
                    /\ Newest'.buf # recv.buf
                    /\ Newest'.smp # recv.smp
               ELSE encs' = encs

C9_WithKeyLeavesReceiver == [][C9_Step]_vars

C9_Witness ==
  /\ last.op = "WithKey" /\ last.out = "ok"
  /\ Recv.variant # Newest.variant
  /\ smp[Recv.smp] > 0

(* C11 (as stated): for every ciphertext, secret key and selected index   *)
(* i, b minus the inner product of the a-vector with the secret equals    *)
(* coefficient i of the decryption of the ciphertext, the a-vector being  *)
(* the mask re-indexed with a sign flip exactly where i - j wraps; one    *)
(* sample per selected index, none for the others.                        *)
Extracted == lwe.pc \in {"extracted", "keyed", "packed"}

ReindexedMask(i, u) ==
  [j \in Idx |-> IF j <= i THEN lwe.ct.c1[u][i - j]
                 ELSE (-lwe.ct.c1[u][LweN + i - j]) % Qi(u)]

KsBound == KsDigits * (CtLevel(lwe.ct) + 1) * LweN * (Base - 1)

C13_MergeKeepsSlots ==
  (lwe.pc \in {"merging", "nokey", "merged"} /\ lwe.rtks = Rotations)
    => /\ lwe.pc # "nokey"
       /\ lwe.stage <= MergeLogN
       /\ Len(lwe.live) * (2 ^ lwe.stage) = MergeN
       /\ lwe.pc = "merged"
            => /\ lwe.stage = MergeLogN
               /\ Len(lwe.live) = 1
               /\ \A sl \in Slots, l \in Slots :
                    lwe.live[1][sl][l] = IF sl = l /\ l \in lwe.slotIndex THEN 1 ELSE 0

C13_Witness ==
  /\ lwe.pc = "merged" /\ lwe.rtks = Rotations /\ lwe.stage = MergeLogN
  /\ lwe.slotIndex # {} /\ lwe.slotIndex # Slots
  /\ (MergeN - 1) \in lwe.slotIndex
  /\ lwe.live[1][MergeN - 1][MergeN - 1] = 1

C15_CopyEqualsOriginal ==
  boot.pc = "copied" => ValueOf(boot.mem, boot.paramsCopy) = ValueOf(boot.mem, boot.b)

(* C19: Copy leaves the value of the original as it was; after it, a      *)
(* write to an element of a list of the copy leaves the value of the      *)
(* original as it was, and a write to an element of a list of the         *)
(* original leaves the value of the copy as it was.                       *)
C19_Step ==
  /\ (boot.pc = "made" /\ boot'.pc = "copied")
       => ValueOf(boot'.mem, boot'.b) = ValueOf(boot.mem, boot.b)
  /\ (boot.pc = "copied" /\ boot'.pc = "written" /\ boot'.wrote = "paramsCopy")
       => ValueOf(boot'.mem, boot'.b) = ValueOf(boot.mem, boot.b)
  /\ (boot.pc = "copied" /\ boot'.pc = "written" /\ boot'.wrote = "b")
       => ValueOf(boot'.mem, boot'.paramsCopy) = ValueOf(boot.mem, boot.paramsCopy)

C19_CopySharesNothing == [][C19_Step]_vars

C19_Witness ==
  /\ boot.pc = "written" /\ boot.wrote = "paramsCopy"
  /\ Len(Elems(boot.mem, boot.b.SlotsToCoeffsModuli.ScalingFactor)) = MaxList
  /\ \E k \in 1..MaxList :
       /\ Elems(boot.mem, Elems(boot.mem, boot.paramsCopy.SlotsToCoeffsModuli.ScalingFactor)[k])[1] = 999
       /\ Elems(boot.mem, Elems(boot.mem, boot.b.SlotsToCoeffsModuli.ScalingFactor)[k])[1] # 999

(* the last call was a public-key Encrypt into an RLWE ciphertext with P  *)
(* configured, and it returned                                            *)
PkWithP ==
  /\ last.op = "Encrypt" /\ tgt = "rlwe" /\ last.out = "ok"
  /\ hasP /\ Recv.variant = "pk"

(* C16 as stated: the division by P comes before the Gaussian noise, so   *)
(* the noise of neither component is divided by P.                        *)
C16_NoiseAfterModDown ==
  PkWithP => \A t \in ct0.v.terms \cup ct1.v.terms :
               (\E x \in t.a : x.k = "gauss") => ~t.divP

(* C16: on the public-key path with P the ternary u is drawn first and    *)
(* multiplied by the public key in the extended ring, then the two        *)
(* Gaussians are drawn, one per component, and added in the extended      *)
(* ring, then both components are divided by P by the basis extender,     *)
(* and the plaintext is added to the body only after that: u*pk and the   *)
(* noise are divided by P, the plaintext is not.                          *)
C16_NoiseBeforeModDown ==
  PkWithP =>
    /\ last.bx = {Recv.bex}
    /\ \E u \in Draws("tern"), g0 \in Draws("gauss"), g1 \in Draws("gauss") :
         /\ u.n < g0.n /\ g0.n < g1.n
         /\ ct0.v.terms = {Term({u, Atom("pk0", Recv.key, 0)}, FALSE, TRUE),
                           Term({g0}, FALSE, TRUE)} \cup PtTerms
         /\ ct1.v.terms = {Term({u, Atom("pk1", Recv.key, 0)}, FALSE, TRUE),
                           Term({g1}, FALSE, TRUE)}

C16_Witness ==
  /\ PkWithP /\ last.pt.ok
  /\ Term({Atom("pt", 0, 0)}, FALSE, FALSE) \in ct0.v.terms
  /\ \E t \in ct1.v.terms : t.divP /\ \E x \in t.a : x.k = "gauss"

(* the last call was a secret-key Encrypt into an RGSW ciphertext, of no  *)
(* plaintext or of one at the ciphertext's level                          *)
RgswCall ==
  /\ last.op = "Encrypt" /\ tgt = "rgsw" /\ Recv.variant = "sk"
  /\ last.pt.ok => last.pt.lvl = MaxLevel

(* the plaintext in Montgomery and NTT form times gadget digit (i, j);    *)
(* nothing when no plaintext was supplied                                 *)
PtTimesDigit(i, j) ==
  IF last.pt.ok
    THEN Value("ntt", 1, {Term({Atom("pt", 0, 0), Atom("w", i * DecompBIT + j, 0)}, FALSE, FALSE)})
    ELSE ZeroVal

GaussIn(l) == {x \in AtomsOf(heap[l].v) : x.k = "gauss"}

PNames == PBufNames \cup {"pk0.P", "pk1.P", "sk.P", "rgsw.P"}

(* C18: every Encryptor made by NewEncryptor, ShallowCopy or WithKey has  *)
(* a basis extender, P scratch buffers and a P uniform sampler exactly    *)
(* when the parameters configure P; a public-key Encrypt that returns     *)
(* used the basis extender (the mod-down path) exactly when P is          *)
(* configured, and without P touched no P-domain ring element.            *)
C18_PPresence ==
  /\ \A e \in 1..Len(encs) :
       /\ (encs[e].bex # 0) = hasP
       /\ encs[e].smpP = hasP
       /\ \A l \in BufLocs(encs[e].buf) : (l[1] \in PBufNames) => (heap[l].ok = hasP)
  /\ (last.op = "Encrypt" /\ last.out = "ok" /\ Recv.variant = "pk")
       => /\ (last.bx # {}) = hasP
          /\ ~hasP => \A l \in last.rd \cup last.wr : l[1] \notin PNames

C18_Witness ==
  /\ ~hasP /\ Len(encs) = 2
  /\ encs[2].base = encs[1].base /\ encs[2].key # encs[1].key
  /\ last.op = "Encrypt" /\ last.e = 2 /\ last.out = "ok" /\ Recv.variant = "pk"
  /\ last.bx = {} /\ last.wr # {}

(* the parameter sets the mode selects: the -params literal in custom     *)
(* mode, else the first entry of TestParams in short mode, else all       *)
SelectedByMode ==
  IF test.flag # "" THEN {test.defaultParams[1]}
  ELSE IF test.short THEN {TestParams[1]}
  ELSE {TestParams[n] : n \in 1..Len(TestParams)}

TimesRun(p, ts) ==
  Cardinality({n \in 1..Len(test.log) : test.log[n][1] = p /\ test.log[n][2] = ts})

(* C20: when TestLWE returns, each of the four test sets has run once for *)
(* every parameter set the mode selects.                                  *)
C20_EverySelectedSetTested ==
  test.pc = "done"
    => \A p \in SelectedByMode : \A n \in 1..Len(TestSets) : TimesRun(p, TestSets[n]) = 1

(* the last call was encryptZeroSymetricQP, it returned, and the mask it  *)
(* worked on was drawn by it or was supplied as NTT-domain data           *)
ZsCall ==
  /\ last.op = "encryptZeroSymetricQP" /\ last.out = "ok"
  /\ last.sample \/ last.in1 = OldMask

(* C21: whatever the destination pair held, and for every combination of  *)
(* sample, montgomery and ntt, the pair holds after the call the mask a   *)
(* (drawn by the call, or the one supplied when sample is false) and the  *)
(* body -a*s + e, e a Gaussian drawn by the call, both in the domain ntt  *)
(* names and in Montgomery form when montgomery is set.                   *)
C21_ZeroDoesNotDependOnCt ==
  ZsCall =>
    \E g \in Draws("gauss") :
      \E a \in IF last.sample THEN Draws("unif") ELSE {Atom("mask", 0, 0)} :
        LET d == Dom(last.ntt)
            m == IF last.montgomery THEN 1 ELSE 0
        IN /\ heap[GQ(0, 0, 0, 1)].v = Value(d, m, {Term({a}, FALSE, FALSE)})
           /\ heap[GQ(0, 0, 0, 0)].v =
                Value(d, m, {Term({g}, FALSE, FALSE),
                             Term({a, Atom("sk", Recv.key, 0)}, TRUE, FALSE)})

====
